---- MODULE Spec2Model ----
(***************************************************************************)
(* Session orchestration layer of the StreamDiffusionV2 demo server:       *)
(* ConnectionManager (demo/connection_manager.py) and App (demo/main.py).  *)
(*                                                                         *)
(* Session objects are indexed by the connection that created them, so     *)
(* that a queue keeps its identity after its session has been removed from *)
(* or replaced in active_connections (a suspended reader holds the object, *)
(* not the user id).                                                       *)
(***************************************************************************)
EXTENDS Integers, Sequences, FiniteSets, TLC

\* ------------------------------------------------------------------ bounds
MaxConn == 2
MaxMsgs == 1
MaxStream == 2
MaxCapacity == 2
MaxBatch == 2
MaxPush == 4
MaxFrames == 3
MaxCalls == 7
MaxWrites == 3
MaxEngine == 2
MaxPending == 1
MaxClock == 4
MaxClose == 3
MaxHandover == 2
MaxWindow == 4
MaxIngestClock == 4
MaxIngest == 3

\* --------------------------------------------------------- program constants
\* asyncio.Queue() is built without a maxsize: 0 means "no limit"
OutputQueueMaxsize == 0
\* flush threshold of the metrics batches
FlushThreshold == 1000

\* generate(): MIN_FPS, MAX_FPS and the denominator of the initial guess 1 / 20
MIN_FPS == 5
MAX_FPS == 30
InitialFps == 20
\* durations are counted in ticks of 1 / TicksPerSecond seconds
TicksPerSecond == 600

Users == {"A", "B"}
\* what can start a shutdown: the SIGINT/SIGTERM handler, the framework's
\* shutdown event, the KeyboardInterrupt path of __main__
Triggers == {"signal", "shutdown_event", "interrupt"}
\* latencies and target latencies, in units of 0.05 s
LatencyValues == {2, 4, 6, 7, 10}
TargetLatencies == {4, 6}
\* no file written yet
NoFile == [missed_frames |-> 0, total_frames |-> 0,
           deadline_miss_rate |-> [num |-> 0, den |-> 1], deadline_seconds |-> 0]
\* no request to /api/metrics yet
NoReply == [user_id |-> "None", window_size |-> 0, status_code |-> 0, sample_count |-> 0,
            remaining_frames |-> 0, batch_count |-> 0]
\* handle_websocket_data: TARGET_FPS; its times are counted in ingest ticks,
\* IngestTicksPerSecond to the second
TARGET_FPS == 16
IngestTicksPerSecond == 32
\* 1 / (TARGET_FPS + 1) in place of 1 / TARGET_FPS: a tick shorter
NarrowInterval == IngestTicksPerSecond \div (TARGET_FPS + 1)
min_frame_interval == IngestTicksPerSecond \div TARGET_FPS
\* last_frame_received_time = None
NoTime == 0 - 1
Conns == 1..MaxConn
Streams == 1..MaxStream
\* an absent object reference (connections and streams are numbered from 1)
None == 0
\* the Python None a call returns in place of a value
NoData == "None"
\* stopped_by: the stop event was set by the stream handler's own error path
StreamError == -1
\* handle_websocket_data has handled no next_frame message yet (seq: how many)
NoIngest == [seq |-> 0, conn |-> None, is_upload_mode |-> FALSE, image_data |-> NoData,
             read_payload |-> FALSE, accepted |-> FALSE, prompts |-> 0,
             slot_written |-> FALSE, appended |-> FALSE, at |-> NoTime]
\* a parameter namespace: its fields, NoData standing for an absent field
EmptyParams == [image |-> NoData, restart |-> NoData, ctl |-> NoData]
\* SimpleNamespace(restart=True), written for a pause message
RestartParams == [image |-> NoData, restart |-> "True", ctl |-> NoData]
ParamValues == {RestartParams} \cup
               {[image |-> "f0", restart |-> NoData, ctl |-> k] : k \in {"c1", "c2"}}
FrameBytes == {"f0", "f1"}
\* longest output queue the model lets grow (the code puts no limit)
MaxOutLen == MaxCapacity + 1

VARIABLES
    \* configuration (Args)
    max_queue_size, enable_metrics,
    \* ConnectionManager.active_connections: user id -> session object
    active_connections,
    \* the session dicts, by creating connection
    session,
    \* WebSocket objects, by connection
    client_state, application_state, ws_sent,
    \* websocket_endpoint tasks and the disconnect task each one schedules
    ep_pc, conn_user, ep_ws, ep_result, fin_pc,
    \* number of control messages the clients have sent so far
    client_msgs,
    \* App attributes
    produce_predictions_stop_event, produce_predictions_task,
    \* per /api/stream request: the stop event, the worker thread, the two loops
    stream_user, stop_event, task_cancelled, stopped_by, worker_pc,
    worker_images, output_timestamp,
    dispatch_pc, dispatch_on, last_params, pacer_pc, pacer_on,
    \* coroutines handed to the event loop by run_coroutine_threadsafe
    loop_calls,
    \* inference engine boundary
    engine_queue,
    \* metrics state of App
    user_input_timestamps, user_latency_history, user_batch_count,
    user_raw_data, now,
    \* callers of the ConnectionManager API and what they observed
    reader_pc, reader_on, reader_ret, writes_since_read, last_written,
    pushed, next_calls, next_ret, ingest_after_next,
    \* record of the timestamps appended and consumed per user
    ts_appended, ts_used,
    \* Args.target_latency
    target_latency,
    \* the cleanup() runs of a service shutdown, by trigger: position, the user
    \* ids disconnect_all still has to visit; the calls of pipeline.close()
    cleanup_pc, cleanup_users, close_calls,
    \* locals of generate(): the pacing estimate and the delay it sleeps
    ema_frame_interval, sleep_time, last_queue_size,
    \* what generate() left in the output queue at its last pop, and the time
    \* since the last burst at its last iteration
    queue_size_after_pop, last_elapsed,
    \* what _log_metrics_to_file wrote last; the calls of it the workers made
    metrics_file, log_calls,
    \* the last request to /api/metrics/{user_id} and its response
    metrics_reply,
    \* time.time() as handle_websocket_data reads it, in ingest ticks; its local
    \* last_frame_received_time by connection; what it did with the last
    \* next_frame message
    ingest_clock, last_frame_received_time, ingest_log,
    \* App.user_metrics_lock: the stream whose worker holds it, if any
    user_metrics_lock

cfgVars == <<max_queue_size, enable_metrics, target_latency>>
regVars == <<active_connections, session>>
wsVars == <<client_state, application_state, ws_sent>>
epVars == <<ep_pc, conn_user, ep_ws, ep_result, fin_pc>>
appVars == <<produce_predictions_stop_event, produce_predictions_task>>
stopVars == <<stop_event, task_cancelled, stopped_by>>
streamVars == <<stream_user, worker_pc, worker_images, output_timestamp, dispatch_pc, dispatch_on, last_params,
                pacer_pc, pacer_on>>
metricVars == <<user_input_timestamps, user_latency_history, user_batch_count,
                user_raw_data, now, ts_appended, ts_used>>
slotVars == <<reader_pc, reader_on, reader_ret, writes_since_read, last_written>>
outVars == <<pushed>>
loopingVars == <<next_calls, next_ret, ingest_after_next>>
apiVars == <<slotVars, outVars, loopingVars>>
shutdownVars == <<cleanup_pc, cleanup_users, close_calls>>
estimateVars == <<ema_frame_interval, sleep_time, last_queue_size, queue_size_after_pop,
                  last_elapsed>>
reportVars == <<metrics_file, metrics_reply, log_calls>>
ingestVars == <<ingest_clock, last_frame_received_time, ingest_log>>
lockVars == <<user_metrics_lock>>
auxVars == <<shutdownVars, estimateVars, reportVars, ingestVars, lockVars>>

vars == <<cfgVars, regVars, wsVars, epVars, appVars, stopVars, streamVars,
          loop_calls, engine_queue, metricVars, apiVars, client_msgs, auxVars>>

\* ----------------------------------------------------------------- helpers
Min(a, b) == IF a < b THEN a ELSE b

RECURSIVE Reverse(_)
Reverse(s) == IF s = <<>> THEN <<>> ELSE Append(Reverse(Tail(s)), Head(s))

Registered == {u \in Users : active_connections[u] # None}

\* the dict connect() stores for a new user
FreshSession ==
    [queue |-> <<>>, output_queue |-> <<>>, video_frame_queue |-> <<>>,
     video_frames |-> <<>>, is_upload_mode |-> FALSE,
     video_upload_completed |-> FALSE, video_queue_index |-> 0,
     video_total_frames |-> 0]

\* asyncio.Queue.full(): never true for maxsize <= 0
QueueFull(q, maxsize) == maxsize > 0 /\ Len(q) >= maxsize

\* len(self.active_connections)
get_user_count == Cardinality(Registered)

\* ------------------------------------------------ ConnectionManager: slot
update_data_no_drain(u, v) ==
    IF active_connections[u] # None
    THEN [session EXCEPT ![active_connections[u]].queue = Append(@, v)]
    ELSE session

\* update_data: drain the queue, then put the new value
update_data(u, v) ==
    IF active_connections[u] # None
    THEN [session EXCEPT ![active_connections[u]].queue = <<v>>]
    ELSE session

\* ------------------------------------------ ConnectionManager: output queue
\* each frame put at the front of the queue instead of its end
PutAllFront(q, frames) == Reverse(frames) \o q

RECURSIVE PutAll(_, _)
\* the for loop of put_frames_to_output_queue over one queue
PutAll(q, frames) ==
    IF frames = <<>> THEN q
    ELSE LET q1 == IF QueueFull(q, OutputQueueMaxsize) THEN Tail(q) ELSE q
         IN PutAll(Append(q1, Head(frames)), Tail(frames))

\* only the first of the frames reaches the queue
put_first_frame(u, frames) ==
    IF active_connections[u] # None /\ frames # <<>>
    THEN [session EXCEPT ![active_connections[u]].output_queue = Append(@, Head(frames))]
    ELSE session

put_frames_to_output_queue(u, frames) ==
    IF active_connections[u] # None
    THEN [session EXCEPT ![active_connections[u]].output_queue = PutAll(@, frames)]
    ELSE session

\* util.pil_to_frame: the image wrapped into one multipart JPEG part
pil_to_frame(image) == <<"frame", image>>

RECURSIVE MapFrames(_)
MapFrames(images) ==
    IF images = <<>> THEN <<>>
    ELSE <<pil_to_frame(Head(images))>> \o MapFrames(Tail(images))

\* ------------------------------------------ ConnectionManager: upload queue
set_upload_mode(u, is_upload) ==
    IF active_connections[u] # None
    THEN IF is_upload
         THEN [session EXCEPT ![active_connections[u]] =
                  [@ EXCEPT !.is_upload_mode = TRUE, !.video_frames = <<>>,
                            !.video_queue_index = 0, !.video_total_frames = 0,
                            !.video_upload_completed = FALSE,
                            !.video_frame_queue = <<>>]]
         ELSE [session EXCEPT ![active_connections[u]].is_upload_mode = FALSE]
    ELSE session

\* the frame stored in the retained buffer without being enqueued
add_video_frame_unqueued(u, frame_data) ==
    IF active_connections[u] # None /\ session[active_connections[u]].is_upload_mode
    THEN [session EXCEPT ![active_connections[u]] =
             [@ EXCEPT !.video_frames = Append(@, frame_data),
                       !.video_total_frames = Len(session[active_connections[u]].video_frames) + 1]]
    ELSE session

add_video_frame(u, frame_data) ==
    IF active_connections[u] # None /\ session[active_connections[u]].is_upload_mode
    THEN [session EXCEPT ![active_connections[u]] =
             [@ EXCEPT !.video_frames = Append(@, frame_data),
                       !.video_total_frames = Len(session[active_connections[u]].video_frames) + 1,
                       !.video_frame_queue = Append(@, frame_data)]]
    ELSE session

RefillReversed(s) == [s EXCEPT !.video_frame_queue = Reverse(s.video_frames),
                               !.video_queue_index = 0]

\* the refill of get_next_video_frame: re-enqueue the whole retained buffer
Refill(s) == [s EXCEPT !.video_frame_queue = s.video_frames,
                       !.video_queue_index = 0]

\* the session as get_next_video_frame sees it after its refill test
AfterRefill(s) ==
    IF s.video_frame_queue = <<>> /\ s.video_frames # <<>> THEN Refill(s) ELSE s

\* what get_next_video_frame returns (None: no data)
NextVideoFrameResult(u) ==
    IF active_connections[u] = None \/ ~session[active_connections[u]].is_upload_mode
    THEN NoData
    ELSE LET s == AfterRefill(session[active_connections[u]])
         IN IF s.video_frame_queue # <<>> THEN Head(s.video_frame_queue) ELSE NoData

\* the session state get_next_video_frame leaves
get_next_video_frame(u) ==
    IF active_connections[u] = None \/ ~session[active_connections[u]].is_upload_mode
    THEN session
    ELSE LET s == AfterRefill(session[active_connections[u]])
         IN IF s.video_frame_queue # <<>>
            THEN [session EXCEPT ![active_connections[u]] =
                     [s EXCEPT !.video_frame_queue = Tail(@),
                               !.video_queue_index = @ + 1]]
            ELSE session

\* ---------------------------------------------------------- initial states
\* the state in which the users of reg (user id -> connection) have completed
\* connect() and sit in their receive loops, and nothing else has happened
InitExceptMetrics(reg) ==
    LET live == {reg[u] : u \in Users} \ {None} IN
    /\ active_connections = reg
    /\ session = [c \in Conns |-> FreshSession]
    /\ client_state = [c \in Conns |-> IF c \in live THEN "CONNECTED" ELSE "CONNECTING"]
    /\ application_state = [c \in Conns |-> IF c \in live THEN "CONNECTED" ELSE "CONNECTING"]
    /\ ws_sent = [c \in Conns |-> IF c \in live THEN {"connected", "wait", "send_frame"}
                                  ELSE {}]
    /\ ep_pc = [c \in Conns |-> IF c \in live THEN "recv" ELSE "idle"]
    /\ conn_user = [c \in Conns |-> IF reg["B"] = c THEN "B" ELSE "A"]
    /\ ep_ws = [c \in Conns |-> IF c \in live THEN c ELSE None]
    /\ ep_result = [c \in Conns |-> "none"]
    /\ fin_pc = [c \in Conns |-> "none"]
    /\ client_msgs = 0
    /\ produce_predictions_stop_event = None
    /\ produce_predictions_task = None
    /\ stream_user = [s \in Streams |-> "A"]
    /\ stop_event = [s \in Streams |-> FALSE]
    /\ task_cancelled = [s \in Streams |-> FALSE]
    /\ stopped_by = [s \in Streams |-> None]
    /\ worker_pc = [s \in Streams |-> "none"]
    /\ worker_images = [s \in Streams |-> <<>>]
    /\ output_timestamp = [s \in Streams |-> 0]
    /\ dispatch_pc = [s \in Streams |-> "none"]
    /\ dispatch_on = [s \in Streams |-> None]
    /\ last_params = [s \in Streams |-> EmptyParams]
    /\ pacer_pc = [s \in Streams |-> "none"]
    /\ pacer_on = [s \in Streams |-> None]
    /\ loop_calls = <<>>
    /\ engine_queue = <<>>
    /\ now = 0
    /\ ts_appended = [u \in Users |-> <<>>]
    /\ ts_used = [u \in Users |-> <<>>]
    /\ reader_pc = "idle"
    /\ reader_on = None
    /\ reader_ret = EmptyParams
    /\ writes_since_read = 0
    /\ last_written = EmptyParams
    /\ pushed = 0
    /\ next_calls = 0
    /\ next_ret = NoData
    /\ ingest_after_next = FALSE
    /\ cleanup_pc = [t \in Triggers |-> "idle"]
    /\ cleanup_users = [t \in Triggers |-> <<>>]
    /\ close_calls = 0
    /\ ema_frame_interval = TicksPerSecond \div InitialFps
    /\ sleep_time = TicksPerSecond \div InitialFps
    /\ last_queue_size = 0
    /\ queue_size_after_pop = 0
    /\ last_elapsed = 0
    /\ metrics_file = NoFile
    /\ log_calls = 0
    /\ metrics_reply = NoReply
    /\ ingest_clock = 0
    /\ last_frame_received_time = [c \in Conns |-> NoTime]
    /\ ingest_log = NoIngest
    /\ user_metrics_lock = None

\* no batch counted, no timestamp pending
InitExceptHistory(reg) ==
    /\ InitExceptMetrics(reg)
    /\ user_input_timestamps = <<>>
    /\ user_batch_count = <<>>
    /\ user_raw_data = <<>>

InitWith(reg) ==
    /\ InitExceptHistory(reg)
    /\ user_latency_history = <<>>
    /\ target_latency = 6

\* the state after App.__init__: nobody connected, nothing started
InitBase ==
    /\ enable_metrics \in BOOLEAN
    /\ max_queue_size \in 0..MaxCapacity
    /\ InitWith([u \in Users |-> None])

\* one connection of user A has completed connect() and sits in its receive loop
InitQueue ==
    /\ enable_metrics = FALSE
    /\ max_queue_size = 0
    /\ InitWith([u \in Users |-> IF u = "A" THEN 1 ELSE None])

\* A and B are both connected, on connections 1 and 2
InitLive ==
    /\ enable_metrics = FALSE
    /\ max_queue_size = 0
    /\ InitWith([u \in Users |-> IF u = "A" THEN 1 ELSE 2])

\* everything but the session dicts and the API callers' observations
nonSessionVars == <<cfgVars, active_connections, wsVars, epVars, appVars, stopVars,
                    streamVars, loop_calls, engine_queue, metricVars, client_msgs,
                    auxVars>>

\* ------------------------------------------------- API calls: params slot
\* a writer (the control loop) calls update_data(u, v)
UpdateData(u, v) ==
    /\ writes_since_read < MaxWrites
    /\ session' = update_data(u, v)
    /\ IF u = "A" /\ active_connections[u] # None
       THEN /\ writes_since_read' = writes_since_read + 1
            /\ last_written' = v
       ELSE UNCHANGED <<writes_since_read, last_written>>
    /\ UNCHANGED <<nonSessionVars, reader_pc, reader_on, reader_ret, outVars, loopingVars>>

\* the reader of user A calls get_latest_data: queue.get() returns at once when
\* the queue holds a value and suspends on this queue object otherwise
GetLatestData ==
    /\ reader_pc = "idle"
    /\ LET c == active_connections["A"] IN
       IF c = None
       THEN /\ reader_ret' = EmptyParams
            /\ UNCHANGED <<session, reader_pc, reader_on, writes_since_read>>
       ELSE IF session[c].queue # <<>>
            THEN /\ reader_ret' = Head(session[c].queue)
                 /\ session' = [session EXCEPT ![c].queue = Tail(@)]
                 /\ writes_since_read' = 0
                 /\ UNCHANGED <<reader_pc, reader_on>>
            ELSE /\ reader_pc' = "wait_data"
                 /\ reader_on' = c
                 /\ UNCHANGED <<session, reader_ret, writes_since_read>>
    /\ UNCHANGED <<nonSessionVars, last_written, outVars, loopingVars>>

\* the suspended queue.get() of the reader resumes once its queue holds a value
GetLatestDataResume ==
    /\ reader_pc = "wait_data"
    /\ session[reader_on].queue # <<>>
    /\ reader_ret' = Head(session[reader_on].queue)
    /\ session' = [session EXCEPT ![reader_on].queue = Tail(@)]
    /\ writes_since_read' = 0
    /\ reader_pc' = "idle"
    /\ reader_on' = None
    /\ UNCHANGED <<nonSessionVars, last_written, outVars, loopingVars>>

\* ------------------------------------------------ API calls: output queue
\* the next n encoded frames, numbered in push order
NewFrames(n) == [i \in 1..n |-> pil_to_frame(pushed + i)]

PutFramesToOutputQueue(u, n) ==
    /\ pushed + n <= MaxPush
    /\ active_connections[u] # None =>
           Len(session[active_connections[u]].output_queue) + n <= MaxOutLen
    /\ session' = put_frames_to_output_queue(u, NewFrames(n))
    /\ pushed' = pushed + n
    /\ UNCHANGED <<nonSessionVars, slotVars, loopingVars>>

\* get_frame on a non-empty output queue
GetFrame(u) ==
    /\ active_connections[u] # None
    /\ session[active_connections[u]].output_queue # <<>>
    /\ session' = [session EXCEPT ![active_connections[u]].output_queue = Tail(@)]
    /\ UNCHANGED <<nonSessionVars, slotVars, outVars, loopingVars>>

NextQueue ==
    \/ \E u \in Users, v \in ParamValues : UpdateData(u, v)
    \/ GetLatestData
    \/ GetLatestDataResume
    \/ \E u \in Users, n \in 1..MaxBatch : PutFramesToOutputQueue(u, n)
    \/ \E u \in Users : GetFrame(u)

SpecQueue == InitQueue /\ [][NextQueue]_vars

\* C3: after k >= 1 update_data writes with no read in between the slot of a
\* registered session holds exactly the last value written; the next
\* get_latest_data returns that value and empties the slot, and a
\* get_latest_data with nothing unread returns no value (it suspends).
C3_SlotHoldsLast ==
    LET q == session[active_connections["A"]].queue
    IN /\ writes_since_read >= 1 => q = <<last_written>>
       /\ writes_since_read = 0 => q = <<>>

C3_ReadStep ==
    Len(session'[active_connections["A"]].queue) < Len(session[active_connections["A"]].queue)

C3_OverwriteLatest ==
    /\ [](C3_SlotHoldsLast)
    /\ [][C3_ReadStep => /\ writes_since_read >= 1
                         /\ reader_ret' = last_written
                         /\ session'[active_connections["A"]].queue = <<>>]_vars
    /\ [][(writes_since_read = 0 /\ reader_pc = "idle" /\ reader_pc' # reader_pc)
            => (reader_pc' = "wait_data" /\ reader_ret' = reader_ret)]_vars

\* two writes with no read in between, the suspended reader not yet resumed
C3_Witness ==
    /\ writes_since_read >= 2
    /\ reader_pc = "wait_data"
    /\ session[reader_on].queue = <<last_written>>

\* C4: the output queue of a session never holds more than its capacity
\* (stated for the largest capacity considered, MaxCapacity).
C4_OutputQueueBounded ==
    \A c \in Conns : Len(session[c].output_queue) <= MaxCapacity

\* ------------------------------------------------ API calls: upload queue
SetUploadMode(u, is_upload) ==
    /\ session' = set_upload_mode(u, is_upload)
    /\ IF u = "A" /\ is_upload
       THEN /\ next_calls' = 0
            /\ next_ret' = NoData
            /\ ingest_after_next' = FALSE
       ELSE UNCHANGED loopingVars
    /\ UNCHANGED <<nonSessionVars, slotVars, outVars>>

AddVideoFrame(u, f) ==
    /\ active_connections[u] # None =>
           Len(session[active_connections[u]].video_frames) < MaxFrames
    /\ session' = add_video_frame(u, f)
    /\ ingest_after_next' =
           IF u = "A" /\ session' # session /\ next_calls > 0
           THEN TRUE ELSE ingest_after_next
    /\ UNCHANGED <<nonSessionVars, slotVars, outVars, next_calls, next_ret>>

GetNextVideoFrame(u) ==
    /\ next_calls < MaxCalls
    /\ session' = get_next_video_frame(u)
    /\ IF u = "A" /\ active_connections[u] # None
            /\ session[active_connections[u]].is_upload_mode
       THEN /\ next_calls' = next_calls + 1
            /\ next_ret' = NextVideoFrameResult(u)
       ELSE UNCHANGED <<next_calls, next_ret>>
    /\ UNCHANGED <<nonSessionVars, slotVars, outVars, ingest_after_next>>

NextUpload ==
    \/ \E u \in Users, b \in BOOLEAN : SetUploadMode(u, b)
    \/ \E u \in Users, f \in FrameBytes : AddVideoFrame(u, f)
    \/ \E u \in Users : GetNextVideoFrame(u)

SpecUpload == InitQueue /\ [][NextUpload]_vars

\* C5: in upload mode, with the buffer [f0..f(n-1)] ingested before the first
\* call and no ingest since, the k-th get_next_video_frame returned
\* f((k-1) mod n); and no call made while the buffer is non-empty returns
\* "no data".
C5_KthFrame ==
    LET s == session[active_connections["A"]]
        n == Len(s.video_frames)
    IN (s.is_upload_mode /\ ~ingest_after_next /\ next_calls >= 1 /\ n >= 1)
           => next_ret = s.video_frames[((next_calls - 1) % n) + 1]

C5_LoopReplay ==
    /\ [](C5_KthFrame)
    /\ [][(next_calls' = next_calls + 1
             /\ session[active_connections["A"]].video_frames # <<>>)
            => next_ret' # NoData]_vars

\* the second pass over a buffer of three frames, two of them different
C5_Witness ==
    LET s == session[active_connections["A"]]
    IN /\ s.is_upload_mode /\ ~ingest_after_next
       /\ Len(s.video_frames) = 3 /\ s.video_frames[1] # s.video_frames[2]
       /\ next_calls = 5
       /\ next_ret = s.video_frames[2]

\* ===================================================== connection lifecycle
\* WebSocket.send / close once the application side is no longer CONNECTED
\* raises RuntimeError; receive on it ends with a disconnect.
AppConnected(w) == application_state[w] = "CONNECTED"

\* get_websocket: the websocket of the user's current session, when the
\* client side is CONNECTED (cs: the client states to look at)
get_websocket_in(cs, u) ==
    IF active_connections[u] # None /\ cs[active_connections[u]] = "CONNECTED"
    THEN active_connections[u]
    ELSE None

get_websocket(u) == get_websocket_in(client_state, u)

\* the capacity test without its "0 means no limit" conjunct
IsServerFullNoZero(user_count) == user_count >= max_queue_size

IsServerFullOffByOne(user_count) ==
    max_queue_size > 0 /\ user_count > max_queue_size

\* the capacity test of connect()
IsServerFull(user_count) ==
    max_queue_size > 0 /\ user_count >= max_queue_size

RemoveKey(f, k) == [x \in DOMAIN f \ {k} |-> f[x]]

\* the entry left in the registry
KeepUserRegistry(u) == active_connections

\* delete_user: pop the entry, then drain the params and the output queue
DeleteUserRegistry(u) == [active_connections EXCEPT ![u] = None]

DeleteUserSession(sess, u) ==
    IF active_connections[u] # None
    THEN [sess EXCEPT ![active_connections[u]].queue = <<>>,
                      ![active_connections[u]].output_queue = <<>>]
    ELSE sess

delete_user(u) ==
    /\ active_connections' = DeleteUserRegistry(u)
    /\ session' = DeleteUserSession(session, u)

set_video_upload_completed(u, is_completed) ==
    IF active_connections[u] # None
    THEN [session EXCEPT ![active_connections[u]].video_upload_completed = is_completed]
    ELSE session

\* disconnect(u) reaches its "await websocket.close()" and suspends there iff
\* get_websocket finds a websocket whose close message can still be sent;
\* otherwise it runs through delete_user without suspending
DisconnectSuspends(cs, u) ==
    get_websocket_in(cs, u) # None /\ AppConnected(get_websocket_in(cs, u))

\* websocket.close(): the application side is DISCONNECTED from the call on
CloseEffect(app, cs, u) ==
    IF DisconnectSuspends(cs, u)
    THEN [app EXCEPT ![get_websocket_in(cs, u)] = "DISCONNECTED"]
    ELSE app

\* send_json(u, status): sent on the user's current websocket, if any
SendFails(u) == get_websocket(u) # None /\ ~AppConnected(get_websocket(u))

SendEffect(u, status) ==
    IF get_websocket(u) # None /\ AppConnected(get_websocket(u))
    THEN [ws_sent EXCEPT ![get_websocket(u)] = @ \cup {status}]
    ELSE ws_sent

\* the finally block of websocket_endpoint: schedule disconnect(user_id), drop
\* the user's metrics, set the stop event and cancel the task App refers to
EndpointFinally(c) ==
    /\ ep_pc' = [ep_pc EXCEPT ![c] = "done"]
    /\ fin_pc' = [fin_pc EXCEPT ![c] = "start"]
    /\ IF enable_metrics
       THEN /\ user_input_timestamps' = RemoveKey(user_input_timestamps, conn_user[c])
            /\ user_batch_count' = RemoveKey(user_batch_count, conn_user[c])
            /\ user_latency_history' = RemoveKey(user_latency_history, conn_user[c])
            /\ user_raw_data' = RemoveKey(user_raw_data, conn_user[c])
       ELSE UNCHANGED <<user_input_timestamps, user_batch_count,
                        user_latency_history, user_raw_data>>
    /\ UNCHANGED <<now, ts_appended, ts_used>>
    /\ IF produce_predictions_stop_event # None
       THEN /\ stop_event' = [stop_event EXCEPT ![produce_predictions_stop_event] = TRUE]
            /\ stopped_by' = IF stop_event[produce_predictions_stop_event]
                             THEN stopped_by
                             ELSE [stopped_by EXCEPT ![produce_predictions_stop_event] = c]
       ELSE UNCHANGED <<stop_event, stopped_by>>
    /\ IF produce_predictions_task # None
       THEN task_cancelled' = [task_cancelled EXCEPT ![produce_predictions_task] = TRUE]
       ELSE UNCHANGED task_cancelled

\* what no step of a connection task touches
recvFrame == <<cfgVars, appVars, streamVars, loop_calls, engine_queue, apiVars, auxVars>>
connFrame == <<recvFrame, client_msgs>>
noFinally == <<fin_pc, stopVars, metricVars>>

\* a client opens /api/ws/{u}: the endpoint calls connect(), which awaits accept()
ClientConnect(c, u) ==
    /\ ep_pc[c] = "idle"
    /\ \A d \in Conns : d < c => ep_pc[d] # "idle"
    /\ ep_pc' = [ep_pc EXCEPT ![c] = "accept"]
    /\ conn_user' = [conn_user EXCEPT ![c] = u]
    /\ UNCHANGED <<ep_ws, ep_result, regVars, wsVars, connFrame, noFinally>>

\* accept() returns: the capacity test, then either the error status is sent or
\* the session is stored and the first handshake status is sent
ConnectAccepted(c) ==
    /\ ep_pc[c] = "accept"
    /\ client_state' = [client_state EXCEPT ![c] = "CONNECTED"]
    /\ application_state' = [application_state EXCEPT ![c] = "CONNECTED"]
    /\ IF IsServerFull(get_user_count)
       THEN /\ ws_sent' = [ws_sent EXCEPT ![c] = @ \cup {"error"}]
            /\ ep_pc' = [ep_pc EXCEPT ![c] = "full_sent"]
            /\ UNCHANGED regVars
       ELSE /\ active_connections' = [active_connections EXCEPT ![conn_user[c]] = c]
            /\ session' = [session EXCEPT ![c] = FreshSession]
            /\ ws_sent' = [ws_sent EXCEPT ![c] = @ \cup {"connected"}]
            /\ ep_pc' = [ep_pc EXCEPT ![c] = "hs1"]
    /\ UNCHANGED <<conn_user, ep_ws, ep_result, connFrame, noFinally>>

\* the error status is out: close the rejected websocket
ConnectRejectClose(c) ==
    /\ ep_pc[c] = "full_sent"
    /\ application_state' = [application_state EXCEPT ![c] = "DISCONNECTED"]
    /\ ep_pc' = [ep_pc EXCEPT ![c] = "full_closed"]
    /\ UNCHANGED <<conn_user, ep_ws, ep_result, fin_pc, client_state, ws_sent,
                   regVars, connFrame, stopVars, metricVars>>

\* close() returned: ServerFullException, caught by the endpoint, then finally
ConnectRejectRaise(c) ==
    /\ ep_pc[c] = "full_closed"
    /\ ep_result' = [ep_result EXCEPT ![c] = "ServerFull"]
    /\ EndpointFinally(c)
    /\ UNCHANGED <<conn_user, ep_ws, regVars, wsVars, connFrame>>

\* the second and third handshake status; a websocket closed meanwhile by a
\* disconnect of the same user id makes the send raise, out of the endpoint
ConnectHandshake(c) ==
    /\ ep_pc[c] \in {"hs1", "hs2"}
    /\ IF AppConnected(c)
       THEN /\ ws_sent' = [ws_sent EXCEPT ![c] =
                              @ \cup {IF ep_pc[c] = "hs1" THEN "wait" ELSE "send_frame"}]
            /\ ep_pc' = [ep_pc EXCEPT ![c] = IF ep_pc[c] = "hs1" THEN "hs2" ELSE "hs3"]
            /\ UNCHANGED <<ep_result, noFinally>>
       ELSE /\ ep_result' = [ep_result EXCEPT ![c] = "error"]
            /\ EndpointFinally(c)
            /\ UNCHANGED ws_sent
    /\ UNCHANGED <<conn_user, ep_ws, regVars, client_state, application_state, connFrame>>

\* client -> server control messages (the status field)
ClientMsgs == {"pause", "resume", "upload_done", "other"}

\* handle_websocket_data up to the next suspension: check_user on entry, the
\* idle-timeout test at the top of the loop, then receive_json.
\* expired: whether time.time() - last_time exceeds the timeout now.
ControlLoopTop(c, expired) ==
    LET u == conn_user[c] IN
    /\ ep_pc[c] \in {"hs3", "top"}
    /\ IF ep_pc[c] = "hs3" /\ active_connections[u] = None
       THEN \* check_user fails: return
            /\ EndpointFinally(c)
            /\ UNCHANGED <<ep_ws, regVars, wsVars>>
       ELSE IF expired
       THEN IF get_websocket(u) # None /\ AppConnected(get_websocket(u))
            THEN \* the timeout status is sent; suspended in the send
                 /\ ws_sent' = SendEffect(u, "timeout")
                 /\ ep_pc' = [ep_pc EXCEPT ![c] = "timeout_sent"]
                 /\ UNCHANGED <<ep_ws, regVars, client_state, application_state, noFinally>>
            ELSE \* nothing to send to, or the send raises: disconnect runs
                 \* through delete_user without suspending, then finally
                 /\ delete_user(u)
                 /\ EndpointFinally(c)
                 /\ UNCHANGED <<ep_ws, wsVars>>
       ELSE IF get_websocket(u) = None
       THEN \* receive_json returns None: sleep(THROTTLE), next iteration
            /\ ep_pc' = [ep_pc EXCEPT ![c] = "top"]
            /\ UNCHANGED <<ep_ws, regVars, wsVars, noFinally>>
       ELSE IF AppConnected(get_websocket(u))
       THEN \* suspended in websocket.receive_json()
            /\ ep_pc' = [ep_pc EXCEPT ![c] = "recv"]
            /\ ep_ws' = [ep_ws EXCEPT ![c] = get_websocket(u)]
            /\ UNCHANGED <<regVars, wsVars, noFinally>>
       ELSE \* receive_json raises on a closed websocket
            /\ delete_user(u)
            /\ EndpointFinally(c)
            /\ UNCHANGED <<ep_ws, wsVars>>
    /\ UNCHANGED <<conn_user, ep_result, connFrame>>

\* receive_json returns msg, or ends with the client's disconnect; the message
\* is handled up to the next suspension
ControlRecv(c, msg) ==
    LET u == conn_user[c]
        w == ep_ws[c]
        cs == [client_state EXCEPT ![w] = "DISCONNECTED"]
    IN
    /\ ep_pc[c] = "recv"
    /\ (~AppConnected(w) \/ client_state[w] # "CONNECTED") => msg = "disconnect"
    /\ msg # "disconnect" => client_msgs < MaxMsgs
    /\ client_msgs' = IF msg = "disconnect" THEN client_msgs ELSE client_msgs + 1
    /\ IF msg = "disconnect"
       THEN /\ client_state' = cs
            /\ IF DisconnectSuspends(cs, u)
               THEN \* the user id now maps to another, live websocket:
                    \* disconnect closes that one and suspends
                    /\ application_state' = CloseEffect(application_state, cs, u)
                    /\ ep_pc' = [ep_pc EXCEPT ![c] = "disc_closing"]
                    /\ UNCHANGED <<regVars, noFinally>>
               ELSE /\ delete_user(u)
                    /\ EndpointFinally(c)
                    /\ UNCHANGED application_state
            /\ UNCHANGED ws_sent
       ELSE IF msg = "pause"
       THEN /\ session' = update_data(u, RestartParams)
            /\ ep_pc' = [ep_pc EXCEPT ![c] = "top"]
            /\ UNCHANGED <<active_connections, wsVars, noFinally>>
       ELSE IF msg \in {"resume", "upload_done"}
       THEN LET sess == IF msg = "upload_done"
                        THEN set_video_upload_completed(u, TRUE) ELSE session
            IN IF SendFails(u)
               THEN /\ active_connections' = DeleteUserRegistry(u)
                    /\ session' = DeleteUserSession(sess, u)
                    /\ EndpointFinally(c)
                    /\ UNCHANGED wsVars
               ELSE /\ session' = sess
                    /\ ws_sent' = SendEffect(u, IF msg = "resume" THEN "send_frame"
                                                ELSE "upload_done_ack")
                    /\ ep_pc' = [ep_pc EXCEPT ![c] = "top"]
                    /\ UNCHANGED <<active_connections, client_state,
                                   application_state, noFinally>>
       ELSE \* anything else: sleep(THROTTLE) and continue
            /\ ep_pc' = [ep_pc EXCEPT ![c] = "top"]
            /\ UNCHANGED <<regVars, wsVars, noFinally>>
    /\ UNCHANGED <<conn_user, ep_ws, ep_result, recvFrame>>

\* the timeout status is out: disconnect(user_id)
ControlTimeoutResume(c) ==
    /\ ep_pc[c] = "timeout_sent"
    /\ IF DisconnectSuspends(client_state, conn_user[c])
       THEN /\ application_state' = CloseEffect(application_state, client_state, conn_user[c])
            /\ ep_pc' = [ep_pc EXCEPT ![c] = "disc_closing"]
            /\ UNCHANGED <<regVars, noFinally>>
       ELSE /\ delete_user(conn_user[c])
            /\ EndpointFinally(c)
            /\ UNCHANGED application_state
    /\ UNCHANGED <<conn_user, ep_ws, ep_result, client_state, ws_sent, connFrame>>

\* close() returned inside the loop's disconnect: delete_user, return, finally
ControlDisconnectResume(c) ==
    /\ ep_pc[c] = "disc_closing"
    /\ delete_user(conn_user[c])
    /\ EndpointFinally(c)
    /\ UNCHANGED <<conn_user, ep_ws, ep_result, wsVars, connFrame>>

\* the disconnect task the finally block scheduled starts running
FinDisconnect(c) ==
    /\ fin_pc[c] = "start"
    /\ IF DisconnectSuspends(client_state, conn_user[c])
       THEN /\ application_state' = CloseEffect(application_state, client_state, conn_user[c])
            /\ fin_pc' = [fin_pc EXCEPT ![c] = "closing"]
            /\ UNCHANGED regVars
       ELSE /\ delete_user(conn_user[c])
            /\ fin_pc' = [fin_pc EXCEPT ![c] = "done"]
            /\ UNCHANGED application_state
    /\ UNCHANGED <<ep_pc, conn_user, ep_ws, ep_result, client_state, ws_sent,
                   connFrame, stopVars, metricVars>>

\* ... and, after its close() returned, deletes the user
FinDisconnectResume(c) ==
    /\ fin_pc[c] = "closing"
    /\ delete_user(conn_user[c])
    /\ fin_pc' = [fin_pc EXCEPT ![c] = "done"]
    /\ UNCHANGED <<ep_pc, conn_user, ep_ws, ep_result, wsVars, connFrame,
                   stopVars, metricVars>>

\* ================================================================ streaming
SetKey(f, k, v) == [x \in DOMAIN f \cup {k} |-> IF x = k THEN v ELSE f[x]]
GetKey(f, k, default) == IF k \in DOMAIN f THEN f[k] ELSE default

RECURSIVE Sum(_)
Sum(s) == IF s = <<>> THEN 0 ELSE Head(s) + Sum(Tail(s))

\* what no step of a stream task touches
streamFrame == <<cfgVars, epVars, client_msgs, client_state, application_state, apiVars,
                 auxVars>>

\* GET /api/stream/{u}: a new stop event and worker thread replace the ones
\* App referred to, the dispatch task is created, the client is prompted; a
\* failing prompt sets the (new) stop event and no response stream starts
StreamStart(s, u) ==
    /\ worker_pc[s] = "none"
    /\ \A r \in Streams : r < s => worker_pc[r] # "none"
    /\ produce_predictions_stop_event' = s
    /\ produce_predictions_task' = s
    /\ stream_user' = [stream_user EXCEPT ![s] = u]
    /\ worker_pc' = [worker_pc EXCEPT ![s] = "poll"]
    /\ dispatch_pc' = [dispatch_pc EXCEPT ![s] = "top"]
    /\ IF SendFails(u)
       THEN /\ stop_event' = [stop_event EXCEPT ![s] = TRUE]
            /\ stopped_by' = [stopped_by EXCEPT ![s] = StreamError]
            /\ pacer_pc' = [pacer_pc EXCEPT ![s] = "ended"]
            /\ UNCHANGED ws_sent
       ELSE /\ ws_sent' = SendEffect(u, "send_frame")
            /\ pacer_pc' = [pacer_pc EXCEPT ![s] = "top"]
            /\ UNCHANGED <<stop_event, stopped_by>>
    /\ UNCHANGED <<regVars, task_cancelled, worker_images, output_timestamp,
                   dispatch_on, last_params, pacer_on, loop_calls, engine_queue,
                   metricVars, streamFrame>>

\* engine boundary: accept_new_params enqueues the value (here: its owner) ...
accept_new_params(u) == Append(engine_queue, u)
\* ... and produce_outputs hands over n completed images, oldest first
produce_outputs(n) == SubSeq(engine_queue, 1, n)

\* produce_predictions, first half of an iteration: the stop test, the poll of
\* the engine and, with metrics on, the output timestamp
ProducePredictionsPoll(s, n) ==
    /\ worker_pc[s] = "poll"
    /\ n <= Len(engine_queue)
    /\ IF stop_event[s]
       THEN /\ worker_pc' = [worker_pc EXCEPT ![s] = "exited"]
            /\ UNCHANGED <<engine_queue, worker_images, output_timestamp, now>>
       ELSE IF n = 0
       THEN \* nothing completed: sleep(THROTTLE) and poll again
            UNCHANGED <<worker_pc, engine_queue, worker_images, output_timestamp, now>>
       ELSE /\ enable_metrics => now < MaxClock
            /\ worker_images' = [worker_images EXCEPT ![s] = produce_outputs(n)]
            /\ engine_queue' = SubSeq(engine_queue, n + 1, Len(engine_queue))
            /\ output_timestamp' = [output_timestamp EXCEPT ![s] =
                                       IF enable_metrics THEN now ELSE 0]
            /\ now' = IF enable_metrics THEN now + 1 ELSE now
            /\ worker_pc' = [worker_pc EXCEPT ![s] = "batch"]
    /\ UNCHANGED <<regVars, ws_sent, appVars, stopVars, stream_user, dispatch_pc,
                   dispatch_on, last_params, pacer_pc, pacer_on, loop_calls,
                   user_input_timestamps, user_latency_history, user_batch_count,
                   user_raw_data, ts_appended, ts_used, streamFrame>>

\* ---------------------------------------- what _log_metrics_to_file computes
RECURSIVE Gcd(_, _)
Gcd(a, b) == IF b = 0 THEN a ELSE Gcd(b, a % b)

\* the float a / b (b > 0), kept exact as a fraction in lowest terms
Quotient(a, b) == [num |-> a \div Gcd(a, b), den |-> b \div Gcd(a, b)]

\* latencies >= deadline
NotBelow(latency, deadline) == latency >= deadline

\* latencies > deadline, for one element
Above(latency, deadline) == latency > deadline

RECURSIVE CountAbove(_, _)
\* np.sum(latencies > deadline), summed by halves
CountAbove(latencies, deadline) ==
    IF latencies = <<>> THEN 0
    ELSE IF Len(latencies) = 1
    THEN (IF Above(latencies[1], deadline) THEN 1 ELSE 0)
    ELSE LET half == Len(latencies) \div 2 IN
         CountAbove(SubSeq(latencies, 1, half), deadline)
             + CountAbove(SubSeq(latencies, half + 1, Len(latencies)), deadline)

\* the deadline_stats _log_metrics_to_file computes
deadline_stats(latencies, deadline) ==
    LET missed == CountAbove(latencies, deadline) IN
    [deadline_seconds |-> deadline,
     deadline_miss_rate |-> Quotient(missed, Len(latencies)),
     missed_frames |-> missed,
     total_frames |-> Len(latencies)]

\* the log is due only once the counter has passed the threshold
LogOverdue(batch_num) == batch_num > FlushThreshold

\* produce_predictions: the test that starts the log and the reset
LogDue(batch_num) == batch_num >= FlushThreshold

PopRight(dq, m) == [i \in 1..m |-> dq[Len(dq) + 1 - i]]

\* m times deque.popleft(): the m oldest pending input timestamps
PopLeft(dq, m) == SubSeq(dq, 1, m)

\* the metrics block of produce_predictions, under user_metrics_lock
MetricsBatch(s) ==
    LET u == stream_user[s]
        out == output_timestamp[s]
        dq == user_input_timestamps[u]
        m == Min(Len(worker_images[s]), Len(dq))
        taken == PopLeft(dq, m)
        batch_latencies == [i \in 1..m |-> out - taken[i]]
        history == GetKey(user_latency_history, u, <<>>) \o batch_latencies
        batch_num == GetKey(user_batch_count, u, 0) + 1
        raw_batch_data == [batch_num |-> batch_num, current_frames |-> m,
                           latency_sum |-> Sum(batch_latencies),
                           remaining |-> Len(dq) - m, data_count |-> Len(history)]
        raw == Append(GetKey(user_raw_data, u, <<>>), raw_batch_data)
    IN /\ user_input_timestamps' = [user_input_timestamps EXCEPT ![u] =
                                       SubSeq(dq, m + 1, Len(dq))]
       /\ ts_used' = [ts_used EXCEPT ![u] = @ \o taken]
       /\ IF m = 0
          THEN UNCHANGED <<user_latency_history, user_batch_count, user_raw_data,
                           metrics_file, log_calls>>
          ELSE IF LogDue(batch_num)
          THEN \* _log_metrics_to_file, which swallows its own failure, then
               \* the reset for the next window
               /\ \E persisted \in BOOLEAN :
                      metrics_file' = IF persisted
                                      THEN deadline_stats(history, target_latency)
                                      ELSE metrics_file
               /\ log_calls' = log_calls + 1
               /\ user_batch_count' = SetKey(user_batch_count, u, 0)
               /\ user_latency_history' = SetKey(user_latency_history, u, <<>>)
               /\ user_raw_data' = SetKey(user_raw_data, u, <<>>)
          ELSE /\ user_batch_count' = SetKey(user_batch_count, u, batch_num)
               /\ user_latency_history' = SetKey(user_latency_history, u, history)
               /\ user_raw_data' = SetKey(user_raw_data, u, raw)
               /\ UNCHANGED <<metrics_file, log_calls>>

\* produce_predictions, second half: latency accounting, then the encoded
\* frames are handed to the event loop (run_coroutine_threadsafe)
ProducePredictionsBatch(s) ==
    /\ worker_pc[s] = "batch"
    /\ Len(loop_calls) < MaxPending
    /\ IF enable_metrics /\ stream_user[s] \in DOMAIN user_input_timestamps
       THEN MetricsBatch(s)
       ELSE UNCHANGED <<user_input_timestamps, user_latency_history,
                        user_batch_count, user_raw_data, ts_used, metrics_file,
                        log_calls>>
    /\ loop_calls' = Append(loop_calls, [user_id |-> stream_user[s],
                                         frames |-> MapFrames(worker_images[s])])
    /\ worker_pc' = [worker_pc EXCEPT ![s] = "poll"]
    /\ worker_images' = [worker_images EXCEPT ![s] = <<>>]
    /\ UNCHANGED <<regVars, ws_sent, appVars, stopVars, stream_user, output_timestamp,
                   dispatch_pc, dispatch_on, last_params, pacer_pc, pacer_on,
                   engine_queue, now, ts_appended, cfgVars, epVars, client_msgs,
                   client_state, application_state, apiVars, shutdownVars,
                   estimateVars, metrics_reply, ingestVars, lockVars>>

\* the event loop runs the oldest handed-over put_frames_to_output_queue
LoopRunCall ==
    /\ loop_calls # <<>>
    /\ LET call == Head(loop_calls) IN
       /\ active_connections[call.user_id] # None =>
              Len(session[active_connections[call.user_id]].output_queue)
                  + Len(call.frames) <= MaxOutLen
       /\ session' = put_frames_to_output_queue(call.user_id, call.frames)
    /\ loop_calls' = Tail(loop_calls)
    /\ UNCHANGED <<active_connections, ws_sent, appVars, stopVars, streamVars,
                   engine_queue, metricVars, streamFrame>>

\* util.bytes_to_pil: the decoded image of an uploaded payload
bytes_to_pil(image_bytes) == IF image_bytes = "f0" THEN "img0" ELSE "img1"

\* the params remembered and handed to the engine, no input timestamp recorded
ForwardUntimed(s, params) ==
    /\ Len(engine_queue) < MaxEngine
    /\ last_params' = [last_params EXCEPT ![s] = params]
    /\ engine_queue' = accept_new_params(stream_user[s])
    /\ UNCHANGED <<user_input_timestamps, ts_appended, now>>

\* the params handed to the engine without being remembered as the last ones
ForwardUnremembered(s, params) ==
    LET u == stream_user[s] IN
    /\ Len(engine_queue) < MaxEngine
    /\ UNCHANGED last_params
    /\ engine_queue' = accept_new_params(u)
    /\ IF enable_metrics
       THEN /\ now < MaxClock
            /\ user_input_timestamps' =
                   SetKey(user_input_timestamps, u,
                          Append(GetKey(user_input_timestamps, u, <<>>), now))
            /\ ts_appended' = [ts_appended EXCEPT ![u] = Append(@, now)]
            /\ now' = now + 1
       ELSE UNCHANGED <<user_input_timestamps, ts_appended, now>>

\* the dispatch loop forwards params: remember them, record the input
\* timestamp (metrics on), hand them to the engine
Forward(s, params) ==
    LET u == stream_user[s] IN
    /\ Len(engine_queue) < MaxEngine
    /\ last_params' = [last_params EXCEPT ![s] = params]
    /\ engine_queue' = accept_new_params(u)
    /\ IF enable_metrics
       THEN /\ now < MaxClock
            /\ user_input_timestamps' =
                   SetKey(user_input_timestamps, u,
                          Append(GetKey(user_input_timestamps, u, <<>>), now))
            /\ ts_appended' = [ts_appended EXCEPT ![u] = Append(@, now)]
            /\ now' = now + 1
       ELSE UNCHANGED <<user_input_timestamps, ts_appended, now>>

NoForward == UNCHANGED <<last_params, engine_queue, user_input_timestamps,
                         ts_appended, now>>

\* camera mode, after get_latest_data returned params: forward them if they are
\* non-empty and differ from the last forwarded value, then prompt the client;
\* a prompt that raises ends the task
DispatchCamera(s, params) ==
    /\ IF params # EmptyParams /\ params # last_params[s]
       THEN Forward(s, params)
       ELSE NoForward
    /\ IF SendFails(stream_user[s])
       THEN /\ dispatch_pc' = [dispatch_pc EXCEPT ![s] = "dead"]
            /\ UNCHANGED ws_sent
       ELSE /\ dispatch_pc' = [dispatch_pc EXCEPT ![s] = "top"]
            /\ ws_sent' = SendEffect(stream_user[s], "send_frame")

dispatchFrame == <<active_connections, appVars, stopVars, stream_user, worker_pc,
                   worker_images, output_timestamp, pacer_pc, pacer_on, loop_calls,
                   user_latency_history, user_batch_count, user_raw_data, ts_used,
                   streamFrame>>

\* push_frames_to_pipeline: one iteration from the top of its loop
PushFramesToPipeline(s) ==
    LET u == stream_user[s]
        c == active_connections[u]
    IN
    /\ dispatch_pc[s] = "top"
    /\ IF c # None /\ session[c].is_upload_mode
       THEN LET video_frame == NextVideoFrameResult(u)
                params == [image |-> bytes_to_pil(video_frame),
                           restart |-> last_params[s].restart,
                           ctl |-> last_params[s].ctl]
            IN /\ session' = get_next_video_frame(u)
               /\ IF video_frame # NoData /\ params # last_params[s]
                  THEN Forward(s, params)
                  ELSE NoForward
               /\ UNCHANGED <<dispatch_pc, dispatch_on, ws_sent>>
       ELSE IF c = None
       THEN \* get_latest_data returns None and vars(None) raises
            /\ dispatch_pc' = [dispatch_pc EXCEPT ![s] = "dead"]
            /\ NoForward
            /\ UNCHANGED <<session, dispatch_on, ws_sent>>
       ELSE IF session[c].queue = <<>>
       THEN \* suspended in queue.get() of this session object
            /\ dispatch_pc' = [dispatch_pc EXCEPT ![s] = "wait_data"]
            /\ dispatch_on' = [dispatch_on EXCEPT ![s] = c]
            /\ NoForward
            /\ UNCHANGED <<session, ws_sent>>
       ELSE /\ session' = [session EXCEPT ![c].queue = Tail(@)]
            /\ DispatchCamera(s, Head(session[c].queue))
            /\ UNCHANGED dispatch_on
    /\ UNCHANGED dispatchFrame

\* the suspended get_latest_data resumes with a value
PushFramesResume(s) ==
    /\ dispatch_pc[s] = "wait_data"
    /\ session[dispatch_on[s]].queue # <<>>
    /\ session' = [session EXCEPT ![dispatch_on[s]].queue = Tail(@)]
    /\ DispatchCamera(s, Head(session[dispatch_on[s]].queue))
    /\ dispatch_on' = [dispatch_on EXCEPT ![s] = None]
    /\ UNCHANGED dispatchFrame

pacerFrame == <<active_connections, ws_sent, appVars, stopVars, stream_user, worker_pc,
                worker_images, output_timestamp, dispatch_pc, dispatch_on,
                last_params, loop_calls, engine_queue, metricVars, streamFrame>>

\* generate: one iteration: get_frame returns None for an unknown user (the
\* stream ends), pops a frame (emitted, then the pacing sleep), or suspends
Generate(s) ==
    LET c == active_connections[stream_user[s]] IN
    /\ pacer_pc[s] = "top"
    /\ IF c = None
       THEN /\ pacer_pc' = [pacer_pc EXCEPT ![s] = "ended"]
            /\ UNCHANGED <<session, pacer_on>>
       ELSE IF session[c].output_queue = <<>>
       THEN /\ pacer_pc' = [pacer_pc EXCEPT ![s] = "wait_frame"]
            /\ pacer_on' = [pacer_on EXCEPT ![s] = c]
            /\ UNCHANGED session
       ELSE /\ session' = [session EXCEPT ![c].output_queue = Tail(@)]
            /\ UNCHANGED <<pacer_pc, pacer_on>>
    /\ UNCHANGED pacerFrame

\* the suspended get_frame resumes with a frame
GenerateResume(s) ==
    /\ pacer_pc[s] = "wait_frame"
    /\ session[pacer_on[s]].output_queue # <<>>
    /\ session' = [session EXCEPT ![pacer_on[s]].output_queue = Tail(@)]
    /\ pacer_pc' = [pacer_pc EXCEPT ![s] = "top"]
    /\ pacer_on' = [pacer_on EXCEPT ![s] = None]
    /\ UNCHANGED pacerFrame

\* the HTTP client of the stream goes away: the response generator is closed
StreamClientGone(s) ==
    /\ pacer_pc[s] \in {"top", "wait_frame"}
    /\ pacer_pc' = [pacer_pc EXCEPT ![s] = "ended"]
    /\ pacer_on' = [pacer_on EXCEPT ![s] = None]
    /\ UNCHANGED <<session, pacerFrame>>

\* ======================================================== specifications
\* the control loops of the connected clients and what ends them
ControlNext ==
    \/ \E c \in Conns, expired \in BOOLEAN : ControlLoopTop(c, expired)
    \/ \E c \in Conns, msg \in ClientMsgs \cup {"disconnect"} : ControlRecv(c, msg)
    \/ \E c \in Conns : ControlTimeoutResume(c)
    \/ \E c \in Conns : ControlDisconnectResume(c)
    \/ \E c \in Conns : FinDisconnect(c)

\* every step of a websocket_endpoint task and of the disconnect it schedules
ConnNext ==
    \/ \E c \in Conns, u \in Users : ClientConnect(c, u)
    \/ \E c \in Conns : ConnectAccepted(c)
    \/ \E c \in Conns : ConnectRejectClose(c)
    \/ \E c \in Conns : ConnectRejectRaise(c)
    \/ \E c \in Conns : ConnectHandshake(c)
    \/ ControlNext
    \/ \E c \in Conns : FinDisconnectResume(c)

\* every step of the tasks and the thread behind a /api/stream request
StreamNext ==
    \/ \E s \in Streams, u \in Users : StreamStart(s, u)
    \/ \E s \in Streams, n \in 0..MaxBatch : ProducePredictionsPoll(s, n)
    \/ \E s \in Streams : ProducePredictionsBatch(s)
    \/ LoopRunCall
    \/ \E s \in Streams : PushFramesToPipeline(s)
    \/ \E s \in Streams : PushFramesResume(s)
    \/ \E s \in Streams : Generate(s)
    \/ \E s \in Streams : GenerateResume(s)
    \/ \E s \in Streams : StreamClientGone(s)

\* ------------------------------------------------------------ the registry
\* connections come and go, no stream is requested
InitConn ==
    /\ InitBase
    /\ ~enable_metrics

NextConn == ConnNext

SpecConn == InitConn /\ [][NextConn]_vars

\* a connect() that found the server full and has not yet raised
Rejecting(c) == ep_pc[c] \in {"full_sent", "full_closed"}

C1_RejectedState ==
    \A c \in Conns :
        (Rejecting(c) \/ ep_result[c] = "ServerFull") =>
            /\ "error" \in ws_sent[c]
            /\ ep_pc[c] # "full_sent" => application_state[c] = "DISCONNECTED"
            /\ active_connections[conn_user[c]] # c
            /\ ws_sent[c] \cap {"connected", "wait", "send_frame"} = {}

C1_RejectStep ==
    \A c \in Conns :
        /\ (/\ ep_pc[c] = "accept" /\ ep_pc'[c] # "accept"
            /\ max_queue_size > 0
            /\ Cardinality(Registered) >= max_queue_size)
               => /\ ep_pc'[c] = "full_sent"
                  /\ active_connections' = active_connections
        /\ (Rejecting(c) /\ ep_pc'[c] # ep_pc[c])
               => /\ active_connections' = active_connections
                  /\ ep_pc[c] = "full_closed" => ep_result'[c] = "ServerFull"

\* C1: with max_queue_size = N > 0, a connect() that finds N sessions in the
\* registry sends the error status, closes its websocket and raises
\* ServerFullException; it stores no session for the rejected connection and
\* none of its steps changes the registry.
C1_CapacityRejection ==
    /\ [](C1_RejectedState)
    /\ [][C1_RejectStep]_vars

\* a connect() has been rejected at a full registry of one session
C1_Witness ==
    \E c \in Conns :
        /\ ep_result[c] = "ServerFull"
        /\ "error" \in ws_sent[c]
        /\ max_queue_size = 1
        /\ Cardinality(Registered) = max_queue_size

\* C2: in every reachable state, whatever the interleaving of connect and
\* disconnect at their awaits, the registry holds at most max_queue_size
\* sessions when max_queue_size > 0, and with max_queue_size = 0 no connect()
\* is rejected for capacity.
C2_RegistryBound ==
    /\ max_queue_size > 0 => Cardinality(Registered) <= max_queue_size
    /\ max_queue_size = 0 =>
           \A c \in Conns : ~Rejecting(c) /\ ep_result[c] # "ServerFull"

\* the registry is at its capacity while another connect() awaits accept()
C2_Witness ==
    /\ max_queue_size = 1
    /\ Cardinality(Registered) = 1
    /\ \E c \in Conns : ep_pc[c] = "accept" /\ active_connections[conn_user[c]] = None

\* ------------------------------------------- connections and stream requests
\* every connection task, the stream handler and the stop test of the workers
Init ==
    /\ InitBase
    /\ ~enable_metrics
    /\ max_queue_size \in {0, 1}

Next ==
    \/ ConnNext
    \/ \E s \in Streams, u \in Users : StreamStart(s, u)
    \/ \E s \in Streams, n \in 0..MaxBatch : ProducePredictionsPoll(s, n)

Spec == Init /\ [][Next]_vars

\* the stop event of stream s was set, or its task cancelled, by the end of a
\* connection of another user id
StoppedByOther(s) ==
    /\ stop_event[s] \/ task_cancelled[s]
    /\ stopped_by[s] \in Conns
    /\ conn_user[stopped_by[s]] # stream_user[s]

\* C8: the end of a connection of A never sets the stop signal of, nor
\* cancels, the worker that serves a different, still registered user B.
C8_StopIsolated ==
    \A s \in Streams :
        (worker_pc[s] # "none" /\ stream_user[s] \in Registered) => ~StoppedByOther(s)

\* a step of a connection attempt that connect() rejected for capacity: a step
\* of connect() after the capacity test, the exception path through the
\* endpoint's finally block, or a step of the disconnect task it scheduled
RejectedAttemptStep(c) ==
    \/ Rejecting(c) /\ ep_pc'[c] # ep_pc[c]
    \/ ep_result[c] = "ServerFull" /\ fin_pc'[c] # fin_pc[c]

\* C9: a connection attempt rejected for capacity, its cleanup included,
\* leaves the registry, every session's queues and flags, the websockets of
\* the other connections and every stop signal and worker as they were.
C9_RejectedChangesNothing ==
    [][\A c \in Conns :
          RejectedAttemptStep(c) =>
              /\ UNCHANGED <<active_connections, session, stop_event, task_cancelled>>
              /\ \A d \in Conns \ {c} :
                     application_state'[d] = application_state[d]]_vars

\* --------------------------------------------------------------- streaming
\* A and B are connected: their control loops and what ends them, the stream
\* handler, the worker threads, the dispatch loops and the pacers
NextLive == ControlNext \/ StreamNext

SpecLive == InitLive /\ [][NextLive]_vars

\* the worker of stream s has exited on a stop event set by the end of a
\* connection of another user, while the engine still holds work of s's user
DrainLost(s) ==
    /\ worker_pc[s] = "exited"
    /\ StoppedByOther(s)
    /\ \E i \in 1..Len(engine_queue) : engine_queue[i] = stream_user[s]

\* C7: a disconnect of A while B is streaming never leaves B's pacer or
\* dispatch loop cut off from the frames the engine produces for B: while B is
\* registered and its pacer runs, B's frames are not stranded behind a worker
\* that A's disconnect has stopped.
C7_StreamUndisturbed ==
    \A s \in Streams :
        (/\ stream_user[s] \in Registered
         /\ get_websocket(stream_user[s]) # None
         /\ pacer_pc[s] = "wait_frame"
         /\ pacer_on[s] = active_connections[stream_user[s]])
            => ~DrainLost(s)

\* ----------------------------------------------- streaming, fair scheduling
\* A is connected.  The event loop runs every task that can run and the
\* worker threads keep running; the clients are free to stay silent.
FairLive ==
    /\ \A c \in Conns : /\ WF_vars(\E expired \in BOOLEAN : ControlLoopTop(c, expired))
                        /\ WF_vars(ControlTimeoutResume(c))
                        /\ WF_vars(ControlDisconnectResume(c))
                        /\ WF_vars(FinDisconnect(c))
    /\ \A s \in Streams : /\ WF_vars(\E n \in 0..MaxBatch : ProducePredictionsPoll(s, n))
                          /\ WF_vars(ProducePredictionsBatch(s))
                          /\ WF_vars(PushFramesToPipeline(s))
                          /\ WF_vars(PushFramesResume(s))
                          /\ WF_vars(Generate(s))
                          /\ WF_vars(GenerateResume(s))
    /\ WF_vars(LoopRunCall)

SpecFair == InitQueue /\ [][NextLive]_vars /\ FairLive

\* the dispatch loop of s is suspended in get_latest_data on a session object
\* that is no longer the registered session of its user
DispatchDangling(s) ==
    dispatch_pc[s] = "wait_data" /\ active_connections[stream_user[s]] # dispatch_on[s]

\* the same for the pacer, suspended in get_frame
PacerDangling(s) ==
    pacer_pc[s] = "wait_frame" /\ active_connections[stream_user[s]] # pacer_on[s]

\* C10: a task suspended in get_latest_data or get_frame on a session that
\* disconnect()/delete_user() removes is eventually released.
C10_NoDanglingReader ==
    \A s \in Streams :
        /\ DispatchDangling(s) ~> (dispatch_pc[s] # "wait_data")
        /\ PacerDangling(s) ~> (pacer_pc[s] # "wait_frame")

\* ----------------------------------------------------- streaming, metrics on
\* A is connected and the service runs with metrics enabled; the control loop
\* of A writes params, the stream tasks and the worker threads run
InitMetrics ==
    /\ enable_metrics = TRUE
    /\ max_queue_size = 0
    /\ InitWith([u \in Users |-> IF u = "A" THEN 1 ELSE None])

NextMetrics ==
    \/ \E v \in ParamValues : UpdateData("A", v)
    \/ StreamNext

SpecMetrics == InitMetrics /\ [][NextMetrics]_vars

IsPrefix(s, t) == Len(s) <= Len(t) /\ s = SubSeq(t, 1, Len(s))

StrictlyIncreasing(s) == \A i, j \in 1..Len(s) : i < j => s[i] < s[j]

\* the worker threads started for user u
WorkersOf(u) == {s \in Streams : worker_pc[s] # "none" /\ stream_user[s] = u}

\* C6: the timestamps the dispatch loop records for a user increase in
\* dispatch order, and the i-th latency sample of the user is computed from
\* the i-th of them: the timestamps consumed so far are the oldest ones, in
\* order, each used once, one per sample; with a single worker for the user a
\* sample is the distance from its timestamp to a later output timestamp.
C6_FifoPairing ==
    \A u \in Users :
        /\ StrictlyIncreasing(ts_appended[u])
        /\ IsPrefix(ts_used[u], ts_appended[u])
        /\ GetKey(user_input_timestamps, u, <<>>) =
               SubSeq(ts_appended[u], Len(ts_used[u]) + 1, Len(ts_appended[u]))
        /\ LET history == GetKey(user_latency_history, u, <<>>) IN
           /\ Len(history) = Len(ts_used[u])
           /\ \A s \in Streams : WorkersOf(u) = {s} =>
                  \A i \in 1..Len(history) :
                      /\ history[i] > 0
                      /\ ts_appended[u][i] + history[i] <= output_timestamp[s]

\* two timestamps were pending when a batch of one image consumed the older
C6_Witness ==
    /\ Len(ts_appended["A"]) >= 2
    /\ Len(ts_used["A"]) = 1
    /\ Len(GetKey(user_latency_history, "A", <<>>)) = 1
    /\ Len(GetKey(user_input_timestamps, "A", <<>>)) >= 1

\* ---------------------------------------------------- transports per user id
\* the websocket of connection c is a live transport handle of a session:
\* connect() stored a session for it and both of its sides are still open
LiveTransport(c) ==
    /\ client_state[c] = "CONNECTED"
    /\ application_state[c] = "CONNECTED"
    /\ ep_pc[c] \notin {"idle", "accept"}
    /\ ~Rejecting(c)
    /\ ep_result[c] # "ServerFull"

\* C11: in every reachable state at most one live transport handle exists per
\* user id; a connect() for an id that is already registered does not leave
\* the earlier websocket open next to the new one.
C11_OneLiveTransport ==
    \A c, d \in Conns :
        (c # d /\ conn_user[c] = conn_user[d]) => ~(LiveTransport(c) /\ LiveTransport(d))

\* --------------------------------------------------------------- idle timeout
\* C12: a control loop does not wait for its client forever: while the client
\* stays silent the idle time exceeds any timeout > 0, and the loop then sends
\* the timeout status and disconnects without a further client message, so a
\* loop suspended in receive_json eventually leaves it.
C12_IdleTimeout ==
    \A c \in Conns :
        (ep_pc[c] = "recv") ~> (ep_pc[c] # "recv" \/ "timeout" \in ws_sent[c])

\* ================================================================= shutdown
\* stopped_by: the stop event was set by cleanup()
ServiceShutdown == StreamError - 1

\* the triggers whose cleanup() runs in an event loop of its own (a new loop in
\* the handler's thread, a new loop after uvicorn.run returned)
ForeignLoop(t) == t \in {"signal", "interrupt"}

\* list(self.active_connections.keys())
RegisteredSeq == SelectSeq(<<"A", "B">>, LAMBDA u : active_connections[u] # None)

\* disconnect(u) on the registry reg, sessions sess and application states app
\* suspends in close() iff u has a websocket that can still be closed
VisitSuspends(st, u) ==
    /\ st.reg[u] # None
    /\ client_state[st.reg[u]] = "CONNECTED"
    /\ st.app[st.reg[u]] = "CONNECTED"

\* delete_user(u) on st
VisitDelete(st, u) ==
    [st EXCEPT !.reg = [@ EXCEPT ![u] = None],
               !.sess = IF st.reg[u] # None
                        THEN [@ EXCEPT ![st.reg[u]].queue = <<>>,
                                       ![st.reg[u]].output_queue = <<>>]
                        ELSE @]

RECURSIVE VisitUsers(_, _)
\* the for loop of disconnect_all over the user ids us, up to its next
\* suspension: rest holds the ids from the one being closed on
VisitUsers(st, us) ==
    IF us = <<>> THEN [st |-> st, rest |-> <<>>]
    ELSE IF VisitSuspends(st, Head(us))
    THEN [st |-> [st EXCEPT !.app = [@ EXCEPT ![st.reg[Head(us)]] = "DISCONNECTED"]],
          rest |-> us]
    ELSE VisitUsers(VisitDelete(st, Head(us)), Tail(us))

\* disconnect_all from st over us up to its next suspension; with every user
\* visited, pipeline.close() is called and cleanup() returns
DisconnectAllFrom(t, st, us) ==
    LET v == VisitUsers(st, us) IN
    /\ active_connections' = v.st.reg
    /\ session' = v.st.sess
    /\ application_state' = v.st.app
    /\ cleanup_users' = [cleanup_users EXCEPT ![t] = v.rest]
    /\ IF v.rest = <<>>
       THEN /\ close_calls' = close_calls + 1
            /\ cleanup_pc' = [cleanup_pc EXCEPT ![t] = "done"]
       ELSE /\ cleanup_pc' = [cleanup_pc EXCEPT ![t] = "closing"]
            /\ UNCHANGED close_calls

CurrentState == [reg |-> active_connections, sess |-> session, app |-> application_state]

cleanupFrame == <<cfgVars, client_state, ws_sent, epVars, appVars, streamVars, loop_calls,
                  engine_queue, metricVars, apiVars, client_msgs, estimateVars,
                  reportVars, ingestVars, lockVars>>

\* trigger t fires and cleanup() runs up to its first suspension: the stop
\* event App refers to is set and its task cancelled; the task is awaited
\* (from a foreign loop that await raises, out of cleanup()); disconnect_all
CleanupStart(t) ==
    /\ cleanup_pc[t] = "idle"
    /\ close_calls < MaxClose
    /\ IF produce_predictions_stop_event # None
       THEN /\ stop_event' = [stop_event EXCEPT ![produce_predictions_stop_event] = TRUE]
            /\ stopped_by' = IF stop_event[produce_predictions_stop_event]
                             THEN stopped_by
                             ELSE [stopped_by EXCEPT ![produce_predictions_stop_event] =
                                       ServiceShutdown]
       ELSE UNCHANGED <<stop_event, stopped_by>>
    /\ IF produce_predictions_task # None
       THEN /\ task_cancelled' = [task_cancelled EXCEPT ![produce_predictions_task] = TRUE]
            /\ cleanup_pc' = [cleanup_pc EXCEPT ![t] =
                                 IF ForeignLoop(t) THEN "failed" ELSE "await_task"]
            /\ UNCHANGED <<regVars, application_state, cleanup_users, close_calls>>
       ELSE /\ DisconnectAllFrom(t, CurrentState, RegisteredSeq)
            /\ UNCHANGED task_cancelled
    /\ UNCHANGED cleanupFrame

\* the cancelled task is done: disconnect_all starts
CleanupTaskDone(t) ==
    /\ cleanup_pc[t] = "await_task"
    /\ DisconnectAllFrom(t, CurrentState, RegisteredSeq)
    /\ UNCHANGED <<cleanupFrame, stopVars>>

\* close() returned in the disconnect of the user being visited: delete_user,
\* then the rest of the loop
CleanupCloseReturned(t) ==
    /\ cleanup_pc[t] = "closing"
    /\ DisconnectAllFrom(t, VisitDelete(CurrentState, Head(cleanup_users[t])),
                         Tail(cleanup_users[t]))
    /\ UNCHANGED <<cleanupFrame, stopVars>>

\* A and B are connected; streams are requested, the workers poll, and the
\* shutdown triggers fire in any combination and order
NextShutdown ==
    \/ \E t \in Triggers : CleanupStart(t)
    \/ \E t \in Triggers : CleanupTaskDone(t)
    \/ \E t \in Triggers : CleanupCloseReturned(t)
    \/ \E s \in Streams, u \in Users : StreamStart(s, u)
    \/ \E s \in Streams, n \in 0..MaxBatch : ProducePredictionsPoll(s, n)

SpecShutdown == InitLive /\ [][NextShutdown]_vars

\* C13: over a service shutdown, whichever triggers fire and in whatever
\* order, pipeline.close() is invoked exactly once: never a second time, and
\* once no cleanup() is running any more it has been invoked.
C13_EngineClosedOnce ==
    /\ close_calls <= 1
    /\ (/\ \E t \in Triggers : cleanup_pc[t] # "idle"
        /\ \A t \in Triggers : cleanup_pc[t] \in {"idle", "done", "failed"})
           => close_calls = 1



\* C14: an operation on an id that is not (or no longer) registered is a no-op
\* or returns an empty result and no exception reaches the calling loop: an
\* iteration of the dispatch loop whose user is not registered does not end
\* the loop with an exception.
C14_UnregisteredIsNoOp ==
    [][\A s \in Streams :
          (dispatch_pc[s] = "top" /\ active_connections[stream_user[s]] = None)
              => dispatch_pc'[s] # "dead"]_vars


\* ============================================================ engine failure
\* produce_predictions: self.pipeline.produce_outputs() raises. The call is
\* not inside a try block, so the exception leaves the while loop and ends the
\* thread function
ProducePredictionsRaise(s) ==
    /\ worker_pc[s] = "poll"
    /\ ~stop_event[s]
    /\ worker_pc' = [worker_pc EXCEPT ![s] = "crashed"]
    /\ UNCHANGED <<regVars, ws_sent, appVars, stopVars, stream_user, worker_images,
                   output_timestamp, dispatch_pc, dispatch_on, last_params, pacer_pc,
                   pacer_on, loop_calls, engine_queue, metricVars, streamFrame>>

NextEngine == NextLive \/ \E s \in Streams : ProducePredictionsRaise(s)

SpecEngine == InitQueue /\ [][NextEngine]_vars

\* C15: a failure of the engine's produce_outputs() poll does not terminate
\* the worker: no worker is ever ended by an exception of its poll (it goes on
\* polling, so later frames are still delivered).
C15_WorkerSurvivesFailure == \A s \in Streams : worker_pc[s] # "crashed"


\* ================================================================ hand-over
\* produce_predictions, end of an iteration: the worker thread hands the
\* batch's n frames for user u over to the event loop
\* (run_coroutine_threadsafe of put_frames_to_output_queue)
HandOverFrames(u, n) ==
    /\ pushed + n <= MaxPush
    /\ Len(loop_calls) < MaxHandover
    /\ loop_calls' = Append(loop_calls, [user_id |-> u, frames |-> NewFrames(n)])
    /\ pushed' = pushed + n
    /\ UNCHANGED <<cfgVars, regVars, wsVars, epVars, appVars, stopVars, streamVars,
                   engine_queue, metricVars, slotVars, loopingVars, client_msgs, auxVars>>

\* A and B are connected: their workers hand batches over, the event loop
\* runs the handed-over calls, and their pacers take frames off the output
\* queues
NextHandover ==
    \/ \E u \in Users, n \in 1..MaxBatch : HandOverFrames(u, n)
    \/ LoopRunCall
    \/ \E u \in Users : GetFrame(u)

SpecHandover == InitLive /\ [][NextHandover]_vars

RECURSIVE HandedOver(_, _)
\* the frames of the calls for user u, in hand-over order
HandedOver(calls, u) ==
    IF calls = <<>> THEN <<>>
    ELSE (IF Head(calls).user_id = u THEN Head(calls).frames ELSE <<>>)
             \o HandedOver(Tail(calls), u)

\* the frames of user u not emitted yet, in the order generate() will get them
Undelivered(u) ==
    (IF active_connections[u] # None
     THEN session[active_connections[u]].output_queue ELSE <<>>)
        \o HandedOver(loop_calls, u)

FrameNumbers(frames) == [i \in 1..Len(frames) |-> frames[i][2]]

\* C16: within one session the frames are emitted in the order in which the
\* worker handed them over: the frames still to be emitted stand in hand-over
\* order, and a frame that is emitted was handed over before every frame
\* emitted after it.
C16_EmittedInHandoverOrder ==
    [][\A u \in Users :
          /\ StrictlyIncreasing(FrameNumbers(Undelivered(u)))'
          /\ \A c \in Conns :
                (/\ active_connections[u] = c
                 /\ session[c].output_queue # <<>>
                 /\ session'[c].output_queue = Tail(session[c].output_queue))
                    => \A i \in 1..Len(Undelivered(u)') :
                           session[c].output_queue[1][2] < FrameNumbers(Undelivered(u)')[i]
      ]_vars

\* of four frames handed over in more than one batch, the first two have been
\* emitted and each session has one more to emit
C16_Witness ==
    /\ pushed = MaxPush
    /\ loop_calls = <<>>
    /\ session[active_connections["A"]].output_queue = <<pil_to_frame(MaxPush)>>
    /\ session[active_connections["B"]].output_queue = <<pil_to_frame(MaxPush - 1)>>


\* C17: with sessions streaming concurrently against the shared engine, every
\* frame in a session's output queue was produced from parameters dispatched
\* by that same session.
C17_FramesReachTheirSession ==
    \A u \in Users :
        active_connections[u] # None =>
            \A i \in 1..Len(session[active_connections[u]].output_queue) :
                session[active_connections[u]].output_queue[i] = pil_to_frame(u)


\* ==================================================================== pacer
\* times of generate() are counted in ticks, TicksPerSecond to the second:
\* 1 / MAX_FPS and 1 / MIN_FPS are whole numbers of ticks
MinDelay == TicksPerSecond \div MAX_FPS
MaxDelay == TicksPerSecond \div MIN_FPS

\* the seconds between two bursts that generate() measures, in ticks
ElapsedValues == {0, 6, 60, 300, 3000}

\* the estimate slept as it is
Unclamped(interval) == interval

\* min(max(ema_frame_interval, 1 / MAX_FPS), 1 / MIN_FPS)
ClampDelay(interval) ==
    LET lower == IF interval > MinDelay THEN interval ELSE MinDelay
    IN IF lower < MaxDelay THEN lower ELSE MaxDelay

\* generate(), one iteration up to get_frame: the output queue holds queue_size
\* frames, elapsed ticks after the last burst. SMOOTHING is 0.8 = 4/5.
GenerateEstimate(queue_size, elapsed) ==
    /\ IF queue_size > last_queue_size /\ queue_size > 0 /\ elapsed > 0
       THEN LET raw_interval == elapsed \div queue_size
                ema == (4 * ema_frame_interval + raw_interval) \div 5
            IN /\ ema_frame_interval' = ema
               /\ sleep_time' = ClampDelay(ema)
       ELSE UNCHANGED <<ema_frame_interval, sleep_time>>
    /\ last_queue_size' = queue_size
    /\ UNCHANGED <<queue_size_after_pop, last_elapsed>>
    /\ UNCHANGED <<cfgVars, regVars, wsVars, epVars, appVars, stopVars, streamVars,
                   loop_calls, engine_queue, metricVars, apiVars, client_msgs,
                   shutdownVars, reportVars, ingestVars, lockVars>>

NextPacer == \E queue_size \in 0..MaxOutLen, elapsed \in ElapsedValues :
                 GenerateEstimate(queue_size, elapsed)

SpecPacer == InitQueue /\ [][NextPacer]_vars

\* C18: in every state of the pacer, the initial one included, the delay slept
\* between frames lies in [1/MAX_FPS, 1/MIN_FPS]: it is the estimate where the
\* estimate lies in that range, exactly 1/MAX_FPS for an estimate below it and
\* exactly 1/MIN_FPS for an estimate above it.
C18_DelayClamped ==
    /\ MinDelay <= sleep_time /\ sleep_time <= MaxDelay
    /\ ema_frame_interval < MinDelay => sleep_time = MinDelay
    /\ ema_frame_interval > MaxDelay => sleep_time = MaxDelay
    /\ (MinDelay <= ema_frame_interval /\ ema_frame_interval <= MaxDelay)
           => sleep_time = ema_frame_interval

\* the estimate has dropped below 1/MAX_FPS and 1/MAX_FPS is slept
C18_Witness == ema_frame_interval < MinDelay /\ sleep_time = MinDelay


\* ============================================================ metrics flush
\* _log_metrics_to_file(u): nothing is written for a user without latency
\* samples
LogMetricsToFile(u) ==
    /\ metrics_file' = IF GetKey(user_latency_history, u, <<>>) = <<>>
                       THEN metrics_file
                       ELSE deadline_stats(user_latency_history[u], target_latency)
    /\ UNCHANGED <<cfgVars, regVars, wsVars, epVars, appVars, stopVars, streamVars,
                   loop_calls, engine_queue, metricVars, apiVars, client_msgs,
                   shutdownVars, estimateVars, metrics_reply, log_calls,
                   ingestVars, lockVars>>

\* the latency windows of at most MaxWindow samples
Windows == UNION {[1..n -> LatencyValues] : n \in 1..MaxWindow}

\* metrics are on and user A has a window of latency samples
InitFlush ==
    /\ enable_metrics = TRUE
    /\ max_queue_size = 0
    /\ target_latency \in TargetLatencies
    /\ \E window \in Windows : user_latency_history = [u \in {"A"} |-> window]
    /\ InitExceptHistory([u \in Users |-> IF u = "A" THEN 1 ELSE None])

NextFlush == \E u \in Users : LogMetricsToFile(u)

SpecFlush == InitFlush /\ [][NextFlush]_vars

\* C19: at a metrics flush over a non-empty latency window, missed_frames is
\* the number of samples strictly greater than the target latency,
\* total_frames is the length of the window, and deadline_miss_rate is
\* missed_frames / total_frames.
C19_MissRate ==
    metrics_file # NoFile =>
        LET window == user_latency_history["A"] IN
        /\ metrics_file.missed_frames =
               Cardinality({i \in 1..Len(window) : window[i] > target_latency})
        /\ metrics_file.total_frames = Len(window)
        /\ metrics_file.deadline_miss_rate.num * metrics_file.total_frames
               = metrics_file.missed_frames * metrics_file.deadline_miss_rate.den

\* the window [0.1, 0.2, 0.3, 0.5] s is flushed with target 0.3 s: the sample
\* equal to the target is no miss, one frame of four is missed
C19_Witness ==
    /\ user_latency_history["A"] = <<2, 4, 6, 10>>
    /\ target_latency = 6
    /\ metrics_file.missed_frames = 1
    /\ metrics_file.total_frames = 4
    /\ metrics_file.deadline_miss_rate = [num |-> 1, den |-> 4]


\* =============================================================== disconnect
\* a call disconnect(conn_user[c]) made for connection c returns in this step:
\* the one of the control loop (after the timeout status or a disconnect
\* message) or the one scheduled by the finally block of the endpoint
DisconnectReturns(c) ==
    \/ fin_pc[c] \in {"start", "closing"} /\ fin_pc'[c] = "done"
    \/ ep_pc[c] \in {"timeout_sent", "disc_closing"} /\ ep_pc'[c] = "done"

\* C20: disconnect(id) is idempotent and total: when it returns (an error of
\* closing an already closed transport swallowed) the id is not registered
\* and no other id has been touched, and a call on an id that is not
\* registered (a second call, an unknown id) leaves the registry and the
\* sessions exactly as they were.
C20_DisconnectIdempotent ==
    [][\A c \in Conns :
          DisconnectReturns(c) =>
              /\ active_connections'[conn_user[c]] = None
              /\ \A u \in Users \ {conn_user[c]} :
                     active_connections'[u] = active_connections[u]
              /\ active_connections[conn_user[c]] = None =>
                     /\ active_connections' = active_connections
                     /\ session' = session
      ]_vars

\* the control loop has sent the timeout status and disconnected its user, and
\* the disconnect scheduled by the finally block has run as well: a second
\* call for the same id
C20_Witness ==
    \E c \in Conns :
        /\ "timeout" \in ws_sent[c]
        /\ ep_pc[c] = "done"
        /\ fin_pc[c] = "done"
        /\ active_connections[conn_user[c]] = None


\* ================================================= shutdown and connections
\* A is connected; the framework's shutdown event runs cleanup() in the
\* server's event loop while clients connect and the control loops run
NextTeardown ==
    \/ ConnNext
    \/ CleanupStart("shutdown_event")
    \/ CleanupCloseReturned("shutdown_event")

\* A is connected, with or without a capacity limit of one user
InitTeardown ==
    /\ enable_metrics = FALSE
    /\ max_queue_size \in {0, 1}
    /\ InitWith([u \in Users |-> IF u = "A" THEN 1 ELSE None])

SpecTeardown == InitTeardown /\ [][NextTeardown]_vars

\* C21: when disconnect_all() returns the registry is empty, also when
\* connect() calls interleave with its awaits of close(), and pipeline.close()
\* is called only after every session has been disconnected.
C21_RegistryEmptyAtReturn ==
    [][\A t \in Triggers :
          (cleanup_pc[t] # "done" /\ cleanup_pc'[t] = "done")
              => /\ \A u \in Users : active_connections'[u] = None
                 /\ close_calls' = close_calls + 1
      ]_vars


\* C22: a transport error (a receive or a send that fails) inside the control
\* loop of a session ends the loop with that session disconnected and out of
\* the registry, and leaves the registry entries of all other sessions as
\* they were.
C22_ErrorTearsDownOwnSession ==
    [][\A c \in Conns :
          (ep_pc[c] \in {"top", "recv", "disc_closing"} /\ ep_pc'[c] = "done")
              => /\ \A u \in Users : active_connections'[u] # c
                 /\ \A u \in Users :
                        active_connections[u] # c
                            => active_connections'[u] = active_connections[u]
      ]_vars


\* ============================================================ metrics query
\* lst[-window_size:] of Python: the last window_size elements for a positive
\* window_size, the whole list for 0, the list without its first -window_size
\* elements for a negative one
LastSlice(lst, window_size) ==
    LET start == IF window_size > 0 THEN Len(lst) - window_size
                 ELSE IF window_size = 0 THEN 0
                 ELSE 0 - window_size
        from == IF start < 0 THEN 0 ELSE start
    IN SubSeq(lst, from + 1, Len(lst))

\* get_metrics(user_id, window_size): the response, with the request
get_metrics(u, window_size) ==
    LET request == [user_id |-> u, window_size |-> window_size]
        empty == [sample_count |-> 0, remaining_frames |-> 0, batch_count |-> 0]
        history == GetKey(user_latency_history, u, <<>>)
    IN IF ~enable_metrics THEN request @@ [status_code |-> 400] @@ empty
       ELSE IF history = <<>> THEN request @@ [status_code |-> 404] @@ empty
       ELSE request @@
            [status_code |-> 200,
             sample_count |-> Len(LastSlice(history, window_size)),
             remaining_frames |-> Len(GetKey(user_input_timestamps, u, <<>>)),
             batch_count |-> GetKey(user_batch_count, u, 0)]

\* GET /api/metrics/{u}?window_size=..
GetMetrics(u, window_size) ==
    /\ metrics_reply' = get_metrics(u, window_size)
    /\ UNCHANGED <<cfgVars, regVars, wsVars, epVars, appVars, stopVars, streamVars,
                   loop_calls, engine_queue, metricVars, apiVars, client_msgs,
                   shutdownVars, estimateVars, metrics_file, log_calls,
                   ingestVars, lockVars>>

\* the window sizes a client asks for
WindowSizes == 0..MaxWindow + 1

\* metrics on or off; user A has latency samples, user B has none
InitQuery ==
    /\ enable_metrics \in BOOLEAN
    /\ max_queue_size = 0
    /\ target_latency \in TargetLatencies
    /\ \E window \in Windows : user_latency_history = [u \in {"A"} |-> window]
    /\ InitExceptHistory([u \in Users |-> IF u = "A" THEN 1 ELSE None])

NextQuery == \E u \in Users, window_size \in WindowSizes : GetMetrics(u, window_size)

SpecQuery == InitQuery /\ [][NextQuery]_vars

\* C23: the metrics query answers 400 with metrics disabled, 404 for a user
\* without latency samples, and otherwise with statistics over the last
\* window samples, sample_count = min(window, length of the history); it
\* changes none of the metrics data.
C23_MetricsQuery ==
    [][metrics_reply' # metrics_reply =>
          LET history == GetKey(user_latency_history, metrics_reply'.user_id, <<>>) IN
          /\ metrics_reply'.status_code =
                 IF ~enable_metrics THEN 400 ELSE IF history = <<>> THEN 404 ELSE 200
          /\ metrics_reply'.status_code = 200 =>
                 metrics_reply'.sample_count = Min(metrics_reply'.window_size, Len(history))
          /\ UNCHANGED metricVars
      ]_vars


\* =================================================================== ingest
\* set_upload_mode, add_video_frame and update_data on one session dict
SetUploadModeOn(s, is_upload) ==
    IF is_upload
    THEN [s EXCEPT !.is_upload_mode = TRUE, !.video_frames = <<>>,
                   !.video_queue_index = 0, !.video_total_frames = 0,
                   !.video_upload_completed = FALSE, !.video_frame_queue = <<>>]
    ELSE [s EXCEPT !.is_upload_mode = FALSE]

AddVideoFrameOn(s, frame_data) ==
    IF s.is_upload_mode
    THEN [s EXCEPT !.video_frames = Append(@, frame_data),
                   !.video_total_frames = Len(s.video_frames) + 1,
                   !.video_frame_queue = Append(@, frame_data)]
    ELSE s

UpdateDataOn(s, new_data) == [s EXCEPT !.queue = <<new_data>>]

\* the payloads receive_bytes returns: an image, or no bytes at all
ImagePayloads == FrameBytes \cup {"empty"}

\* handle_websocket_data, a next_frame message of a registered user on a live
\* websocket, from the return of receive_json to the next loop top, the
\* engine's input mode being "image": the parameters (ctl, is_upload_mode)
\* arrive, then, where the handler reads it, the payload image_data, dt ticks
\* after the last reading of the clock
ControlNextFrame(c, is_upload_mode, ctl, image_data, dt) ==
    LET u == conn_user[c]
        s0 == session[c]
        s1 == SetUploadModeOn(s0, is_upload_mode)
        upload_completed == s1.video_upload_completed
        read_payload == ~is_upload_mode \/ ~upload_completed
        current_time == ingest_clock + dt
        too_early == /\ last_frame_received_time[c] # NoTime
                     /\ current_time - last_frame_received_time[c] < min_frame_interval
        dropped == read_payload /\ (image_data = "empty" \/ too_early)
        accepted == read_payload /\ ~dropped
        appended == accepted /\ is_upload_mode /\ ~upload_completed
        s2 == IF appended THEN AddVideoFrameOn(s1, image_data) ELSE s1
        params == [image |-> IF accepted /\ ~is_upload_mode
                             THEN bytes_to_pil(image_data) ELSE NoData,
                   restart |-> NoData, ctl |-> ctl]
    IN
    /\ ep_pc[c] = "recv"
    /\ ep_ws[c] = c /\ active_connections[u] = c
    /\ AppConnected(c) /\ client_state[c] = "CONNECTED"
    /\ current_time <= MaxIngestClock
    /\ ingest_log.seq < MaxIngest
    /\ Len(s2.video_frames) <= MaxFrames
    /\ ingest_clock' = current_time
    /\ last_frame_received_time' =
           IF accepted THEN [last_frame_received_time EXCEPT ![c] = current_time]
           ELSE last_frame_received_time
    /\ session' = [session EXCEPT ![c] = IF dropped THEN s1 ELSE UpdateDataOn(s2, params)]
    /\ ws_sent' = SendEffect(u, IF dropped THEN "send_frame" ELSE "wait")
    /\ ingest_log' = [seq |-> ingest_log.seq + 1, conn |-> c, is_upload_mode |-> is_upload_mode,
                      image_data |-> IF read_payload THEN image_data ELSE NoData,
                      read_payload |-> read_payload, accepted |-> accepted,
                      prompts |-> IF dropped THEN 1 ELSE 0,
                      slot_written |-> ~dropped, appended |-> appended,
                      at |-> IF read_payload /\ image_data # "empty"
                             THEN current_time ELSE NoTime]
    /\ ep_pc' = [ep_pc EXCEPT ![c] = "top"]
    /\ UNCHANGED <<cfgVars, active_connections, client_state, application_state,
                   conn_user, ep_ws, ep_result, fin_pc, appVars, stopVars, streamVars,
                   loop_calls, engine_queue, metricVars, apiVars, client_msgs,
                   shutdownVars, estimateVars, reportVars, lockVars>>

\* A is connected: its control loop handles next_frame messages and the other
\* control messages
NextIngest ==
    \/ ControlNext
    \/ \E c \in Conns, is_upload_mode \in BOOLEAN, ctl \in {"c1", "c2"},
          image_data \in ImagePayloads, dt \in 0..min_frame_interval :
           ControlNextFrame(c, is_upload_mode, ctl, image_data, dt)

SpecIngest == InitQueue /\ [][NextIngest]_vars


\* the control loop of connection c handles a next_frame message in this step
NextFrameHandled(c) == ingest_log'.seq # ingest_log.seq /\ ingest_log'.conn = c

\* C24: once an upload_done message has been processed, uploadCompleted stays
\* true while the session remains in upload mode: a later next_frame message
\* with upload mode set is handled without reading an image payload and
\* without appending to the upload buffer.
C24_CompletedUploadStaysCompleted ==
    [][\A c \in Conns :
          (/\ NextFrameHandled(c)
           /\ session[c].is_upload_mode
           /\ session[c].video_upload_completed
           /\ ingest_log'.is_upload_mode)
              => /\ ~ingest_log'.read_payload
                 /\ ~ingest_log'.appended
                 /\ session'[c].video_upload_completed
      ]_vars


\* C25: the upload buffer and its cursor are cleared only when a session enters
\* upload mode; while it stays in upload mode with the upload not completed,
\* the frames accepted from successive next_frame messages accumulate in the
\* buffer in arrival order.
C25_UploadBufferAccumulates ==
    [][\A c \in Conns :
          (/\ NextFrameHandled(c)
           /\ session[c].is_upload_mode
           /\ ~session[c].video_upload_completed
           /\ ingest_log'.is_upload_mode)
              => session'[c].video_frames =
                     IF ingest_log'.accepted
                     THEN Append(session[c].video_frames, ingest_log'.image_data)
                     ELSE session[c].video_frames
      ]_vars


\* C26: an image payload that arrives less than 1/16 s after the last accepted
\* payload of its connection, and an empty payload, is dropped: the client is
\* sent exactly one send_frame prompt, the params slot is not written and
\* nothing is appended to the upload buffer; a payload that is accepted is at
\* least 1/16 s after the one accepted before it.
C26_IngestRateLimit ==
    [][\A c \in Conns :
          (NextFrameHandled(c) /\ ingest_log'.read_payload) =>
              LET last == last_frame_received_time[c]
                  early == /\ ingest_log'.at # NoTime /\ last # NoTime
                           /\ (ingest_log'.at - last) * TARGET_FPS < IngestTicksPerSecond
                  drop == early \/ ingest_log'.image_data = "empty"
              IN /\ ingest_log'.accepted = ~drop
                 /\ drop => /\ ingest_log'.prompts = 1
                            /\ ~ingest_log'.slot_written
                            /\ ~ingest_log'.appended
                            /\ session'[c].queue = session[c].queue
                            /\ session'[c].video_frames \in {session[c].video_frames, <<>>}
                            /\ last_frame_received_time'[c] = last
                 /\ ~drop => /\ last_frame_received_time'[c] = ingest_log'.at
                             /\ ingest_log'.prompts = 0
      ]_vars

\* a payload has been dropped for arriving too early after an accepted one
C26_Witness ==
    /\ ingest_log.read_payload
    /\ ingest_log.image_data \in FrameBytes
    /\ ~ingest_log.accepted
    /\ ingest_log.prompts = 1
    /\ last_frame_received_time[ingest_log.conn] # NoTime


\* ======================================================= camera-mode dispatch
\* the dispatch loop of stream s reads the value in the params slot of the
\* session of connection c in this step
SlotReadBy(s, c) ==
    /\ \/ /\ dispatch_pc[s] = "top"
          /\ active_connections[stream_user[s]] = c
          /\ ~session[c].is_upload_mode
       \/ dispatch_pc[s] = "wait_data" /\ dispatch_on[s] = c
    /\ session[c].queue # <<>>
    /\ session'[c].queue = Tail(session[c].queue)
    /\ dispatch_pc'[s] \in {"top", "dead"}

PendingTimestamps(u) == GetKey(user_input_timestamps, u, <<>>)

\* C28: with metrics on and the session connected, under every interleaving
\* of the dispatch loops and the workers: an accept_new_params call for a
\* user comes with exactly one timestamp append, a latency sample consumes
\* exactly one pending timestamp, and the timestamps appended are always the
\* latency samples produced plus the pending ones.
C28_TimestampsConserved ==
    [][\A u \in Users :
          LET appended == Len(ts_appended'[u]) - Len(ts_appended[u])
              consumed == Len(ts_used'[u]) - Len(ts_used[u])
              samples == Len(GetKey(user_latency_history', u, <<>>))
                             - Len(GetKey(user_latency_history, u, <<>>))
          IN /\ Len(ts_appended'[u]) = Len(ts_used'[u]) + Len(PendingTimestamps(u)')
             /\ appended = IF engine_queue' = Append(engine_queue, u) THEN 1 ELSE 0
             /\ consumed >= 0 /\ samples = consumed
             /\ Len(PendingTimestamps(u)') = Len(PendingTimestamps(u)) + appended - consumed
      ]_vars

\* A's dispatch loop has forwarded twice, one latency sample has been produced
\* and one timestamp is pending
C28_Witness ==
    /\ Len(ts_appended["A"]) = 2
    /\ Len(GetKey(user_latency_history, "A", <<>>)) = 1
    /\ Len(PendingTimestamps("A")) = 1


\* ================================================== upload-mode carry-forward
\* A is connected and sends next_frame messages while the dispatch loops of
\* its streams run
NextCarry ==
    \/ \E c \in Conns, is_upload_mode \in BOOLEAN, ctl \in {"c1", "c2"},
          image_data \in ImagePayloads, dt \in 0..min_frame_interval :
           ControlNextFrame(c, is_upload_mode, ctl, image_data, dt)
    \/ \E c \in Conns : ControlLoopTop(c, FALSE)
    \/ \E s \in Streams : StreamStart(s, "A")
    \/ \E s \in Streams : PushFramesToPipeline(s)
    \/ \E s \in Streams : PushFramesResume(s)

SpecCarry == InitQueue /\ [][NextCarry]_vars

\* the dispatch loop of stream s forwards a looped frame of the upload buffer
\* in this step
UploadForward(s) ==
    /\ stream_user[s] \in Users
    /\ active_connections[stream_user[s]] # None
    /\ session[active_connections[stream_user[s]]].is_upload_mode
    /\ dispatch_pc[s] = "top"
    /\ last_params'[s] # last_params[s]

\* C29: in upload mode the dispatch loop forwards the next looped frame with
\* the most recently known non-image fields: once the control loop has
\* written controls to the session's slot, a dispatch loop that has forwarded
\* before forwards its next frames with controls, also when the session has
\* been in upload mode since it connected.
C29_UploadCarriesControls ==
    [][\A s \in Streams :
          (/\ UploadForward(s)
           /\ last_params[s] # EmptyParams
           /\ session[active_connections[stream_user[s]]].queue # <<>>)
          => last_params'[s].ctl # NoData
      ]_vars


\* ===================================================== the metrics window
\* the batch counts the window of user A starts from, just below the threshold
NearThreshold == {FlushThreshold - 2, FlushThreshold - 1}

\* metrics are on, A is connected and its workers have counted k batches of
\* one latency sample each since the last reset; no timestamp is pending
InitWindow ==
    /\ enable_metrics = TRUE
    /\ max_queue_size = 0
    /\ target_latency \in TargetLatencies
    /\ \E k \in NearThreshold :
          /\ user_batch_count = [u \in {"A"} |-> k]
          /\ user_latency_history = [u \in {"A"} |-> [i \in 1..k |-> 2]]
          /\ user_raw_data =
                 [u \in {"A"} |->
                     [i \in 1..k |-> [batch_num |-> i, current_frames |-> 1,
                                      latency_sum |-> 2, remaining |-> 0,
                                      data_count |-> i]]]
    /\ user_input_timestamps = [u \in {"A"} |-> <<>>]
    /\ InitExceptMetrics([u \in Users |-> IF u = "A" THEN 1 ELSE None])

\* params arrive for A, its streams start, their dispatch loops and workers run
NextWindow ==
    \/ \E v \in ParamValues : UpdateData("A", v)
    \/ \E s \in Streams : StreamStart(s, "A")
    \/ \E s \in Streams : PushFramesToPipeline(s)
    \/ \E s \in Streams : PushFramesResume(s)
    \/ \E s \in Streams, n \in 0..MaxBatch : ProducePredictionsPoll(s, n)
    \/ \E s \in Streams : ProducePredictionsBatch(s)
    \/ LoopRunCall

SpecWindow == InitWindow /\ [][NextWindow]_vars

\* the latency samples produced for user u in this step
SamplesProduced(u) == Len(ts_used'[u]) - Len(ts_used[u])

\* a worker of user u counts the batch that reaches the flush threshold in
\* this step
ReachesThreshold(u) ==
    SamplesProduced(u) >= 1 /\ GetKey(user_batch_count, u, 0) + 1 >= FlushThreshold

\* C30: the batch counter of a session is in 0..999 after every worker step;
\* the step in which it reaches the threshold 1000 makes exactly one flush,
\* whether or not persisting succeeds, resets the counter to 0, empties the
\* latency history and the raw-sample buffer, and leaves the pending
\* timestamps alone apart from the ones the step consumed; the counter grows
\* only in a step that produced at least one latency sample.
C30_BatchCounterWindow ==
    [][/\ \A u \in Users :
             LET count == GetKey(user_batch_count, u, 0)
                 count_after == GetKey(user_batch_count', u, 0)
                 pending == PendingTimestamps(u)
             IN /\ count_after \in 0..(FlushThreshold - 1)
                /\ count_after > count =>
                       SamplesProduced(u) >= 1 /\ count_after = count + 1
                /\ ReachesThreshold(u) =>
                       /\ count_after = 0
                       /\ GetKey(user_latency_history', u, <<>>) = <<>>
                       /\ GetKey(user_raw_data', u, <<>>) = <<>>
                       /\ PendingTimestamps(u)' =
                              SubSeq(pending, SamplesProduced(u) + 1, Len(pending))
       /\ log_calls' = log_calls + Cardinality({u \in Users : ReachesThreshold(u)})
      ]_vars

\* the window of A was flushed once with a timestamp still pending, and
\* persisting failed: the counter, the history and the raw buffer are reset
C30_Witness ==
    /\ log_calls = 1
    /\ metrics_file = NoFile
    /\ user_batch_count["A"] = 0
    /\ user_latency_history["A"] = <<>>
    /\ user_raw_data["A"] = <<>>
    /\ Len(PendingTimestamps("A")) = 1


\* ================================================== the pacer and its queue
\* generate() of stream s, one iteration: the queue size is read, elapsed ticks
\* after the last burst, the estimate is updated, then get_frame returns None
\* (no session: the stream ends), suspends on an empty queue, or pops a frame
GenerateIteration(s, elapsed) ==
    LET c == active_connections[stream_user[s]]
        queue_size == IF c = None THEN 0 ELSE Len(session[c].output_queue)
    IN
    /\ pacer_pc[s] = "top"
    /\ IF queue_size > last_queue_size /\ queue_size > 0 /\ elapsed > 0
       THEN LET raw_interval == elapsed \div queue_size
                ema == (4 * ema_frame_interval + raw_interval) \div 5
            IN /\ ema_frame_interval' = ema
               /\ sleep_time' = ClampDelay(ema)
       ELSE UNCHANGED <<ema_frame_interval, sleep_time>>
    /\ last_queue_size' = queue_size
    /\ last_elapsed' = elapsed
    /\ IF c = None
       THEN /\ pacer_pc' = [pacer_pc EXCEPT ![s] = "ended"]
            /\ UNCHANGED <<session, pacer_on, queue_size_after_pop>>
       ELSE IF queue_size = 0
       THEN /\ pacer_pc' = [pacer_pc EXCEPT ![s] = "wait_frame"]
            /\ pacer_on' = [pacer_on EXCEPT ![s] = c]
            /\ UNCHANGED <<session, queue_size_after_pop>>
       ELSE /\ session' = [session EXCEPT ![c].output_queue = Tail(@)]
            /\ queue_size_after_pop' = queue_size - 1
            /\ UNCHANGED <<pacer_pc, pacer_on>>
    /\ UNCHANGED <<active_connections, ws_sent, appVars, stopVars, stream_user,
                   worker_pc, worker_images, output_timestamp, dispatch_pc,
                   dispatch_on, last_params, loop_calls, engine_queue, metricVars,
                   cfgVars, epVars, client_msgs, client_state, application_state,
                   apiVars, shutdownVars, reportVars, ingestVars, lockVars>>

\* the get_frame generate() is suspended in resumes with a frame
GenerateFrameArrived(s) ==
    /\ pacer_pc[s] = "wait_frame"
    /\ session[pacer_on[s]].output_queue # <<>>
    /\ session' = [session EXCEPT ![pacer_on[s]].output_queue = Tail(@)]
    /\ queue_size_after_pop' = Len(session[pacer_on[s]].output_queue) - 1
    /\ pacer_pc' = [pacer_pc EXCEPT ![s] = "top"]
    /\ pacer_on' = [pacer_on EXCEPT ![s] = None]
    /\ UNCHANGED <<active_connections, ws_sent, appVars, stopVars, stream_user,
                   worker_pc, worker_images, output_timestamp, dispatch_pc,
                   dispatch_on, last_params, loop_calls, engine_queue, metricVars,
                   cfgVars, epVars, client_msgs, client_state, application_state,
                   apiVars, shutdownVars, reportVars, ingestVars, lockVars,
                   ema_frame_interval, sleep_time, last_queue_size, last_elapsed>>

\* one stream of A: frames are pushed to A's output queue and the pacer of the
\* stream pops them
NextEstimate ==
    \/ StreamStart(1, "A")
    \/ \E n \in 1..MaxBatch : PutFramesToOutputQueue("A", n)
    \/ \E elapsed \in ElapsedValues : GenerateIteration(1, elapsed)
    \/ GenerateFrameArrived(1)

SpecEstimate == InitQueue /\ [][NextEstimate]_vars

\* C31: the pacer updates its production-interval estimate in each iteration
\* that finds the output queue larger than its previous iteration left it,
\* one frame pushed after each pop included, with raw = (time since the
\* previous burst) / (burst size) and new = 0.8 * old + 0.2 * raw; the
\* estimate is unchanged in an iteration that finds the queue no larger.
C31_EstimateFollowsGrowth ==
    [][LET queue == session[active_connections["A"]].output_queue
           burst == Len(queue) - queue_size_after_pop
       IN (/\ pacer_pc[1] = "top"
           /\ \/ pacer_pc'[1] # "top"
              \/ Len(session'[active_connections["A"]].output_queue) < Len(queue))
          => IF burst > 0
             THEN last_elapsed' > 0 =>
                      ema_frame_interval' =
                          (4 * ema_frame_interval + last_elapsed' \div burst) \div 5
             ELSE ema_frame_interval' = ema_frame_interval
      ]_vars

\* ============================================ pushes run on the event loop
\* C32: the worker thread never changes a session's output queue itself: a
\* step of a worker leaves every session as it is, an output queue grows only
\* in a step of the event loop that runs the oldest handed-over
\* put_frames_to_output_queue call, and that step appends the frames of the
\* call to the queue of the call's registered user, each once and in order.
C32_PushesOnEventLoop ==
    [][/\ (\E s \in Streams : worker_pc'[s] # worker_pc[s] \/ worker_images'[s] # worker_images[s])
           => session' = session
       /\ \A c \in Conns :
             Len(session'[c].output_queue) > Len(session[c].output_queue)
                 => /\ loop_calls # <<>>
                    /\ loop_calls' = Tail(loop_calls)
                    /\ active_connections[Head(loop_calls).user_id] = c
                    /\ worker_pc' = worker_pc
       /\ (loop_calls # <<>> /\ loop_calls' = Tail(loop_calls))
           => \A c \in Conns :
                 session'[c].output_queue =
                     IF active_connections[Head(loop_calls).user_id] = c
                     THEN session[c].output_queue \o Head(loop_calls).frames
                     ELSE session[c].output_queue
      ]_vars

\* a batch of two frames handed over by a worker has been pushed by the event
\* loop and the worker is polling again
C32_Witness ==
    /\ loop_calls = <<>>
    /\ \E s \in Streams :
          /\ worker_pc[s] = "poll"
          /\ active_connections[stream_user[s]] # None
          /\ Len(session[active_connections[stream_user[s]]].output_queue) = 2

\* ========================================================= the metrics lock
\* produce_predictions, second half, where the batch makes the log due: the
\* worker enters the block under user_metrics_lock, consumes the timestamps
\* and counts the batch, and stands before _log_metrics_to_file, the lock held
WorkerCountsUnderLock(s) ==
    LET u == stream_user[s]
        out == output_timestamp[s]
        dq == GetKey(user_input_timestamps, u, <<>>)
        m == Min(Len(worker_images[s]), Len(dq))
        taken == PopLeft(dq, m)
        batch_latencies == [i \in 1..m |-> out - taken[i]]
        history == GetKey(user_latency_history, u, <<>>) \o batch_latencies
        batch_num == GetKey(user_batch_count, u, 0) + 1
        raw_batch_data == [batch_num |-> batch_num, current_frames |-> m,
                           latency_sum |-> Sum(batch_latencies),
                           remaining |-> Len(dq) - m, data_count |-> Len(history)]
    IN
    /\ worker_pc[s] = "batch"
    /\ user_metrics_lock = None
    /\ IF enable_metrics /\ u \in DOMAIN user_input_timestamps /\ m > 0 /\ LogDue(batch_num)
       THEN /\ user_metrics_lock' = s
            /\ worker_pc' = [worker_pc EXCEPT ![s] = "logging"]
            /\ user_input_timestamps' = [user_input_timestamps EXCEPT ![u] =
                                            SubSeq(dq, m + 1, Len(dq))]
            /\ ts_used' = [ts_used EXCEPT ![u] = @ \o taken]
            /\ user_latency_history' = SetKey(user_latency_history, u, history)
            /\ user_batch_count' = SetKey(user_batch_count, u, batch_num)
            /\ user_raw_data' = SetKey(user_raw_data, u,
                                       Append(GetKey(user_raw_data, u, <<>>), raw_batch_data))
            /\ UNCHANGED <<regVars, wsVars, epVars, appVars, stopVars, stream_user,
                           worker_images, output_timestamp, dispatch_pc, dispatch_on,
                           last_params, pacer_pc, pacer_on, loop_calls, engine_queue,
                           now, ts_appended, cfgVars, client_msgs, apiVars, shutdownVars,
                           estimateVars, reportVars, ingestVars>>
       ELSE ProducePredictionsBatch(s)

\* _log_metrics_to_file computes the statistics of the window and writes the
\* two files, inside the block under user_metrics_lock; then the reset, the
\* end of the block, and the hand-over of the frames
WorkerLogsUnderLock(s, persisted) ==
    LET u == stream_user[s] IN
    /\ worker_pc[s] = "logging"
    /\ Len(loop_calls) < MaxPending
    /\ metrics_file' = IF persisted
                       THEN deadline_stats(user_latency_history[u], target_latency)
                       ELSE metrics_file
    /\ log_calls' = log_calls + 1
    /\ user_batch_count' = SetKey(user_batch_count, u, 0)
    /\ user_latency_history' = SetKey(user_latency_history, u, <<>>)
    /\ user_raw_data' = SetKey(user_raw_data, u, <<>>)
    /\ user_metrics_lock' = None
    /\ loop_calls' = Append(loop_calls, [user_id |-> u,
                                         frames |-> MapFrames(worker_images[s])])
    /\ worker_pc' = [worker_pc EXCEPT ![s] = "poll"]
    /\ worker_images' = [worker_images EXCEPT ![s] = <<>>]
    /\ UNCHANGED <<regVars, wsVars, epVars, appVars, stopVars, stream_user,
                   output_timestamp, dispatch_pc, dispatch_on, last_params, pacer_pc,
                   pacer_on, engine_queue, user_input_timestamps, now, ts_appended,
                   ts_used, cfgVars, client_msgs, apiVars, shutdownVars, estimateVars,
                   metrics_reply, ingestVars>>

\* the window of A is nearly full; a dispatch loop runs only while
\* user_metrics_lock is free, the lock it takes to append a timestamp
NextLock ==
    \/ \E v \in ParamValues : UpdateData("A", v)
    \/ \E s \in Streams : StreamStart(s, "A")
    \/ \E s \in Streams : user_metrics_lock = None /\ PushFramesToPipeline(s)
    \/ \E s \in Streams : user_metrics_lock = None /\ PushFramesResume(s)
    \/ \E s \in Streams, n \in 0..MaxBatch : ProducePredictionsPoll(s, n)
    \/ \E s \in Streams : WorkerCountsUnderLock(s)
    \/ \E s \in Streams, persisted \in BOOLEAN : WorkerLogsUnderLock(s, persisted)
    \/ LoopRunCall

SpecLock == InitWindow /\ [][NextLock]_vars

\* the dispatch loop of stream s has params to forward and needs
\* user_metrics_lock to record their timestamp
DispatchNeedsLock(s) ==
    LET c == active_connections[stream_user[s]] IN
    /\ enable_metrics
    /\ dispatch_pc[s] = "top"
    /\ c # None
    /\ ~session[c].is_upload_mode
    /\ session[c].queue # <<>>
    /\ Head(session[c].queue) \notin {EmptyParams, last_params[s]}

\* C33: the event-loop thread never waits for the worker's slow work: the
\* worker does not hold the metrics lock while it computes the statistics of
\* the full window and writes the flush files, so a dispatch loop that needs
\* the lock for a timestamp append never finds it held across I/O.
C33_LockFreeDuringFlush ==
    \A s \in Streams :
        (DispatchNeedsLock(s) /\ user_metrics_lock # None)
            => worker_pc[user_metrics_lock] # "logging"

\* ===================================================== shutdown and workers
\* C34: a service shutdown stops every worker: in the step in which cleanup()
\* starts, every worker thread started by a stream request before it, however
\* many streams are running, has its stop event set (and so leaves its
\* polling loop at its next stop test).
C34_AllWorkersStopped ==
    [][\A t \in Triggers :
          (cleanup_pc[t] = "idle" /\ cleanup_pc'[t] # "idle")
              => \A s \in Streams : worker_pc[s] # "none" => stop_event'[s]
      ]_vars


\* C35: the workers have stopped polling before the engine is released: when
\* pipeline.close() is invoked, every worker thread that was started has
\* exited or has its stop event set, so that no produce_outputs() call starts
\* after the close.
C35_StoppedBeforeClose ==
    [][close_calls' > close_calls
          => \A s \in Streams :
                worker_pc[s] \notin {"none", "exited"} => stop_event[s]
      ]_vars


\* ================================================ the tasks of a connection
\* C36: after a session is disconnected its per-connection tasks end: in the
\* step in which the connection's endpoint runs its cleanup, every worker
\* started for a stream of that session's user that is still running has its
\* stop event set, also when other streams were started later.
C36_OwnWorkerStopped ==
    [][\A c \in Conns :
          (ep_pc[c] # "done" /\ ep_pc'[c] = "done")
              => \A s \in Streams :
                    (stream_user[s] = conn_user[c] /\ worker_pc[s] \notin {"none", "exited"})
                        => stop_event'[s]
      ]_vars


\* ========================================================= the looping queue
\* C37: for every session, after any interleaving of set_upload_mode,
\* add_video_frame and get_next_video_frame, the looping queue holds the
\* retained buffer from position video_queue_index to its end, in order; so
\* 0 <= video_queue_index <= video_total_frames = len(video_frames) and the
\* queue size plus video_queue_index is video_total_frames.
C37_QueueIsBufferSuffix ==
    \A c \in Conns :
        LET s == session[c] IN
        /\ s.video_frame_queue =
               SubSeq(s.video_frames, s.video_queue_index + 1, Len(s.video_frames))
        /\ 0 <= s.video_queue_index
        /\ s.video_queue_index <= s.video_total_frames
        /\ s.video_total_frames = Len(s.video_frames)
        /\ Len(s.video_frame_queue) + s.video_queue_index = s.video_total_frames

\* the second pass over a buffer of three frames, after the refill: two
\* frames taken, the third still queued
C37_Witness ==
    LET s == session[active_connections["A"]] IN
    /\ s.is_upload_mode
    /\ next_calls = 5
    /\ Len(s.video_frames) = 3
    /\ s.video_queue_index = 2
    /\ s.video_frame_queue = <<s.video_frames[3]>>


\* ============================================ metrics of an ended connection
\* metrics are on and A is connected on connection 1; a stream is requested
\* while that connection is A's registered, live one; connections under the
\* id A come and go, params are written for A and the dispatch loop of the
\* stream runs
NextReuse ==
    \/ \E c \in Conns : ClientConnect(c, "A")
    \/ \E c \in Conns : ConnectAccepted(c)
    \/ \E c \in Conns : ConnectHandshake(c)
    \/ \E c \in Conns : ControlLoopTop(c, FALSE)
    \/ \E c \in Conns : ControlRecv(c, "disconnect")
    \/ \E c \in Conns : ControlDisconnectResume(c)
    \/ \E c \in Conns : FinDisconnect(c)
    \/ \E c \in Conns : FinDisconnectResume(c)
    \/ \E v \in ParamValues : UpdateData("A", v)
    \/ active_connections["A"] = 1 /\ ep_pc[1] = "recv" /\ StreamStart(1, "A")
    \/ PushFramesToPipeline(1)
    \/ PushFramesResume(1)

SpecReuse == InitMetrics /\ [][NextReuse]_vars

\* C38: once the endpoint of a connection has finished its cleanup, the
\* dispatch loop and the worker of a stream of that connection create no
\* metrics entry for the session id any more: no pending-timestamp FIFO,
\* latency history, batch counter or raw buffer appears for A once the
\* endpoint of connection 1, for which the stream was requested, is done.
C38_NoMetricsAfterCleanup ==
    [][ep_pc[1] = "done"
          => /\ "A" \in DOMAIN user_input_timestamps' => "A" \in DOMAIN user_input_timestamps
             /\ "A" \in DOMAIN user_latency_history' => "A" \in DOMAIN user_latency_history
             /\ "A" \in DOMAIN user_batch_count' => "A" \in DOMAIN user_batch_count
             /\ "A" \in DOMAIN user_raw_data' => "A" \in DOMAIN user_raw_data
      ]_vars


\* C39: every latency sample in a user's history is non-negative: the input
\* timestamp consumed for a sample was recorded no later than the output
\* timestamp the sample was computed from.
C39_SamplesNonNegative ==
    \A u \in DOMAIN user_latency_history :
        \A i \in 1..Len(user_latency_history[u]) : user_latency_history[u][i] >= 0

====
